---- MODULE Spec2Model ----
(***************************************************************************)
(* Model of the PLC data pool (plc_monitor_master.py, class PLCDataPool)   *)
(* and of the SLAP casting poller (app.py).                                *)
(*                                                                         *)
(* Several specifications share this module:                              *)
(*   Spec      the master collection loop, PLCDataPool.data_collection_loop *)
(*   SpecApp   the app.py loop read_plc with read_plc_1a, read_plc_1b and   *)
(*             process_hourly_data writing the sqlite tables               *)
(*   SpecSave  save_to_database of app.py (with calculate_downtime_minutes) *)
(*             called any number of times                                  *)
(*   SpecReport   process_hourly_data and the report queries             *)
(*             get_production_history, get_hourly_production              *)
(*   SpecClean    the history tables of the master: save_to_database and   *)
(*             cleanup_old_data as the wall clock advances                 *)
(*   SpecService  start(), stop(), the collection threads and the readers  *)
(*             get_current_data, get_register_data, health_check           *)
(*   SpecEither   a run of the master loop or a run of the app.py loop     *)
(*   SpecConfig   load_config on a configuration file                      *)
(*   SpecApi      the endpoint get_plc_registers over a filled cache       *)
(*   SpecConnect  the calls of read_plc_1a and read_plc_1b step by step    *)
(*   SpecLoopsFair  the two poll loops, every step eventually taken        *)
(*   SpecSummary  save_daily_summary called any number of times            *)
(*   SpecAppCached  the app.py loop from the cache an earlier iteration left *)
(*   SpecClose    the calls that close a session                           *)
(*   SpecReconnectFair  the master loop with sessions that become unusable *)
(* Each specification leaves the variables it does not write at their      *)
(* initial value.                                                          *)
(***************************************************************************)
EXTENDS Integers, Sequences, FiniteSets, TLC

VARIABLES
    \* ---- plc_monitor_master.py, PLCDataPool ----
    plc_connections,    \* set of plc ids that have a stored session object
    connection_status,  \* plc id -> "absent" | "True" | "False"  (dict, .get(id, False))
    current_data,       \* plc id -> None | PLCData snapshot
    retry_counts,       \* plc id -> Nat, local of data_collection_loop
    cursor,             \* position of the for loop over plc_configs; Len+1 = after the loop
    lastStep,           \* what the last loop body did (observation only)
    \* ---- app.py ----
    hour,               \* datetime.now(eastern).hour, the wall clock
    ticks,              \* hour changes of the wall clock so far
    iters,              \* iterations of the while loop of read_plc so far
    pc,                 \* position of read_plc in its loop body
    loop_hour,          \* current_hour of read_plc
    last_hour,          \* last_hour of read_plc
    app_status,         \* the connection_status dict of app.py
    current_date,       \* the current_date dict
    day_data,           \* the day_data dict: line -> hour -> {value, downtime}
    production_data,    \* sqlite table production_data
    daily_summary,      \* sqlite table daily_summary
    lastRead,           \* what the last read_plc_1a / read_plc_1b call did (observation only)
    lastProcess,        \* what the last hour-change test of read_plc did (observation only)
    last_saved,         \* per production_data key, the committed save_to_database calls
                        \* (observation only)
    report,             \* what the last get_production_history / get_hourly_production
                        \* call returned
    \* ---- plc_monitor_master.py, the sqlite file and the wall clock ----
    wall_clock,         \* datetime.now()
    plc_history,        \* sqlite table plc_history
    connection_log,     \* sqlite table connection_status
    history_seq,        \* rows inserted so far into each table (AUTOINCREMENT)
    lastCleanup,        \* what the last cleanup_old_data call did (observation only)
    \* ---- plc_monitor_master.py, the service: start(), stop(), threads, readers ----
    running,            \* self.running
    threads,            \* self.threads: per collection thread, its position in
                        \* data_collection_loop and the snapshot it holds
    closed,             \* plc ids whose stored session stop() has closed
    poll_time,          \* datetime.now() as a count of instants, for PLCData.timestamp
    data_lock,          \* holder of self.data_lock, or None
    reader,             \* the get_current_data / get_register_data / health_check call in
                        \* progress and what it has returned
    \* ---- plc_monitor_master.py, construction of the pool ----
    config_file,        \* the "plcs" object of the JSON file: device definitions in order
    loaded_configs,     \* keys of self.plc_configs
    startup,            \* "new" | "started" (__init__ returned) | "raised"
    \* ---- plc_monitor_master.py, the REST endpoints ----
    response,           \* the last request to an endpoint and the JSON it returned
    requests,           \* requests served so far
    \* ---- app.py, the calls of read_plc_1a / read_plc_1b step by step ----
    call,               \* the call in progress: its line, its position, its locals and
                        \* what it has done so far
    begun               \* iterations of read_plc begun

\* Python's None, for a plc id and for a PLCData
None == "None"
NoData == [plc_id |-> None]
\* the outcome of one plc.batchread_wordunits call: it raised, or it returned values
Fail == [ok |-> FALSE, values |-> << >>]
Read(values) == [ok |-> TRUE, values |-> values]

(***************************************************************************)
(* Bounds of the model.                                                    *)
(***************************************************************************)
\* register words returned by the device are drawn from 0..MaxWord
MaxWord == 1
\* retry_counts is capped here: the code lets it grow without limit while
\* every read of an open session fails
MaxCount == 4

Words == 0..MaxWord

(***************************************************************************)
(* Configuration (load_config).  Three devices, the third disabled.  The   *)
(* ranges of 1A overlap, as D800/100 and D850/100 do in the default file.  *)
(***************************************************************************)
plc_configs ==
    [p \in {"1A", "1B", "1C"} |->
        CASE p = "1A" -> [enabled |-> TRUE,
                          register_ranges |-> << [start_register |-> 800, count |-> 2],
                                                 [start_register |-> 801, count |-> 1],
                                                 [start_register |-> 5000, count |-> 1] >>]
          [] p = "1B" -> [enabled |-> TRUE,
                          register_ranges |-> << [start_register |-> 52, count |-> 1] >>]
          [] p = "1C" -> [enabled |-> FALSE,
                          register_ranges |-> << [start_register |-> 52, count |-> 1] >>]]

PLCS == DOMAIN plc_configs

\* iteration order of plc_configs.items() (insertion order of the dict)
Order == << "1A", "1B", "1C" >>

\* settings['max_retries']
max_retries == 3

(***************************************************************************)
(* read_plc_data: the per-range reads.  results[i] is what                 *)
(* plc.batchread_wordunits returns for range i: Fail (it raised) or the    *)
(* sequence of words read.                                                 *)
(***************************************************************************)
\* all sequences of length n over S
SeqsOf(S, n) == [1..n -> S]

\* per device, what it may answer to the reads of its ranges
ReadResultsOf ==
    [p \in PLCS |->
        LET rs == plc_configs[p].register_ranges
        IN  { r \in [1..Len(rs) -> {Fail} \cup UNION { { Read(v) : v \in SeqsOf(Words, rs[i].count) } :
                                                         i \in 1..Len(rs) }] :
                \A i \in 1..Len(rs) : r[i].ok => Len(r[i].values) = rs[i].count }]

\* what the device may answer to the reads of the ranges of p
ReadResults(p) == ReadResultsOf[p]

\* for i, value in enumerate(values): registers[f"D{reg_num + i}"] = value
StoreValues(registers, reg_num, values) ==
    [a \in DOMAIN registers \cup { reg_num + (i - 1) : i \in 1..Len(values) } |->
        IF a - reg_num + 1 \in 1..Len(values) THEN values[a - reg_num + 1] ELSE registers[a]]

\* a faulty variant of ReadRanges, for testing the properties: the first failing range aborts the remaining ones
RECURSIVE ReadRangesAbort(_, _, _, _)
ReadRangesAbort(ranges, results, i, acc) ==
    IF i > Len(ranges) THEN acc
    ELSE IF ~results[i].ok
         THEN [acc EXCEPT !.attempted = @ \cup {i}]
         ELSE ReadRangesAbort(ranges, results, i + 1,
                  [registers |-> StoreValues(acc.registers, ranges[i].start_register, results[i].values),
                   attempted |-> acc.attempted \cup {i}])

\* for range_config in config.register_ranges: try ... except: continue
RECURSIVE ReadRanges(_, _, _, _)
ReadRanges(ranges, results, i, acc) ==
    IF i > Len(ranges) THEN acc
    ELSE IF ~results[i].ok
         THEN ReadRanges(ranges, results, i + 1, [acc EXCEPT !.attempted = @ \cup {i}])
         ELSE ReadRanges(ranges, results, i + 1,
                  [registers |-> StoreValues(acc.registers, ranges[i].start_register, results[i].values),
                   attempted |-> acc.attempted \cup {i}])

EmptyMap == [a \in {} |-> 0]

\* a faulty variant of read_plc_data, for testing the properties: the test
\* 'if registers:' is missing, so a snapshot is returned also when no range was read
read_plc_data_unchecked(p, results) ==
    LET got == ReadRanges(plc_configs[p].register_ranges, results, 1,
                          [registers |-> EmptyMap, attempted |-> {}])
    IN  [data |-> [plc_id |-> p, registers |-> got.registers,
                   connection_status |-> TRUE, error_message |-> None],
         attempted |-> got.attempted]

\* read_plc_data(plc_id) with a stored session: the snapshot returned (None when
\* registers stays empty) and the ranges whose read was attempted
read_plc_data(p, results) ==
    LET got == ReadRanges(plc_configs[p].register_ranges, results, 1,
                          [registers |-> EmptyMap, attempted |-> {}])
    IN  [data |-> IF got.registers # EmptyMap
                  THEN [plc_id |-> p, registers |-> got.registers,
                        connection_status |-> TRUE, error_message |-> None]
                  ELSE NoData,
         attempted |-> got.attempted]

(***************************************************************************)
(* data_collection_loop: one action per branch of the loop body.           *)
(***************************************************************************)
\* the variables written by neither loop
otherVars == << report, wall_clock, plc_history, connection_log, history_seq, lastCleanup >>

appVars == << hour, ticks, iters, pc, loop_hour, last_hour, app_status, current_date, day_data,
              production_data, daily_summary, lastRead, lastProcess, last_saved >>

poolVars == << plc_connections, connection_status, current_data, retry_counts, cursor, lastStep >>

serviceVars == << running, threads, closed, poll_time, data_lock, reader >>

sideVars == << config_file, loaded_configs, startup, response, requests, call, begun >>

PoolInit ==
    /\ plc_connections = {}
    /\ connection_status = [p \in PLCS |-> "absent"]
    /\ current_data = [p \in PLCS |-> NoData]
    /\ retry_counts = [p \in PLCS |-> 0]
    /\ cursor = 1
    /\ lastStep = [kind |-> "start", plc |-> None, connected |-> FALSE,
                   results |-> << >>, attempted |-> {}, data |-> NoData, saved |-> FALSE,
                   retries_before |-> 0]

AtDevice == cursor \in 1..Len(Order)
Cur == Order[cursor]

\* plc_id not in self.plc_connections or not self.connection_status.get(plc_id, False)
NeedsConnect(p) == p \notin plc_connections \/ connection_status[p] # "True"

\* retries_before: retry_counts[plc_id] when the loop body began
Step(kind, p, connected, results, attempted, data) ==
    [kind |-> kind, plc |-> p, connected |-> connected,
     results |-> results, attempted |-> attempted, data |-> data, saved |-> FALSE,
     retries_before |-> IF p \in PLCS THEN retry_counts[p] ELSE 0]

\* a faulty variant of SkipDisabled, for testing the properties: the enabled test is
\* missing, so the device is connected to and read like any other
SkipDisabledMissing ==
    /\ AtDevice
    /\ ~plc_configs[Cur].enabled
    /\ \E results \in ReadResults(Cur) :
        LET ret == read_plc_data(Cur, results)
        IN  /\ plc_connections' = plc_connections \cup {Cur}
            /\ connection_status' = [connection_status EXCEPT ![Cur] = "True"]
            /\ current_data' = IF ret.data # NoData THEN [current_data EXCEPT ![Cur] = ret.data]
                                ELSE current_data
            /\ lastStep' = Step(IF ret.data # NoData THEN "read_ok" ELSE "read_none",
                                Cur, TRUE, results, ret.attempted, ret.data)
    /\ cursor' = cursor + 1
    /\ UNCHANGED retry_counts
    /\ UNCHANGED << appVars, otherVars, serviceVars, sideVars >>

\* if not config.enabled: continue
SkipDisabled ==
    /\ AtDevice
    /\ ~plc_configs[Cur].enabled
    /\ cursor' = cursor + 1
    /\ lastStep' = Step("disabled", Cur, FALSE, << >>, {}, NoData)
    /\ UNCHANGED << plc_connections, connection_status, current_data, retry_counts >>
    /\ UNCHANGED << appVars, otherVars, serviceVars, sideVars >>

\* a faulty variant of ConnectFail, for testing the properties: the failure ends the
\* for loop of the cycle
ConnectFailBreak ==
    /\ AtDevice
    /\ plc_configs[Cur].enabled
    /\ NeedsConnect(Cur)
    /\ retry_counts[Cur] < max_retries
    /\ connection_status' = [connection_status EXCEPT ![Cur] = "False"]
    /\ retry_counts' = [retry_counts EXCEPT ![Cur] = @ + 1]
    /\ cursor' = Len(Order) + 1
    /\ lastStep' = Step("connect_fail", Cur, FALSE, << >>, {}, NoData)
    /\ UNCHANGED << plc_connections, current_data >>
    /\ UNCHANGED << appVars, otherVars, serviceVars, sideVars >>

\* connect_plc fails: connection_status[plc_id] = False, retry_counts += 1, sleep, continue
ConnectFail ==
    /\ AtDevice
    /\ plc_configs[Cur].enabled
    /\ NeedsConnect(Cur)
    /\ retry_counts[Cur] < max_retries
    /\ connection_status' = [connection_status EXCEPT ![Cur] = "False"]
    /\ retry_counts' = [retry_counts EXCEPT ![Cur] = @ + 1]
    /\ cursor' = cursor + 1
    /\ lastStep' = Step("connect_fail", Cur, FALSE, << >>, {}, NoData)
    /\ UNCHANGED << plc_connections, current_data >>
    /\ UNCHANGED << appVars, otherVars, serviceVars, sideVars >>

\* else: # Max retries reached, skip this cycle
SkipMaxRetries ==
    /\ AtDevice
    /\ plc_configs[Cur].enabled
    /\ NeedsConnect(Cur)
    /\ retry_counts[Cur] >= max_retries
    /\ cursor' = cursor + 1
    /\ lastStep' = Step("skip", Cur, FALSE, << >>, {}, NoData)
    /\ UNCHANGED << plc_connections, connection_status, current_data, retry_counts >>
    /\ UNCHANGED << appVars, otherVars, serviceVars, sideVars >>

\* a faulty variant of save_error_reaches_loop, for testing the properties: the
\* sqlite error leaves save_to_database
save_error_propagates(db_ok) == ~db_ok

\* PLCDataPool.save_to_database: except Exception as e: logger.error(...); whether or
\* not sqlite accepted the rows (db_ok), nothing is raised to the loop
save_error_reaches_loop(db_ok) == FALSE

\* retry_counts[plc_id] += 1; the count is followed up to MaxCount and stays there
CountUp(count) == IF count < MaxCount THEN count + 1 ELSE count

\* a faulty variant of RetryAfterSuccess, for testing the properties: the count stays
RetryAfterSuccessKept(count) == count

\* retry_counts[plc_id] = 0, after connect_plc returned True and after a snapshot
RetryAfterSuccess(count) == 0

\* the device is read, after a successful connect_plc when one was needed.  A snapshot
\* is stored in the cache and then handed to save_to_database; an exception leaving
\* the loop body would end the cycle at the outer except
Poll ==
    /\ AtDevice
    /\ plc_configs[Cur].enabled
    /\ NeedsConnect(Cur) => retry_counts[Cur] < max_retries
    /\ \E results \in ReadResults(Cur) :
        LET p == Cur
            connects == NeedsConnect(p)
            ret == read_plc_data(p, results)
        IN  /\ plc_connections' = IF connects THEN plc_connections \cup {p} ELSE plc_connections
            /\ connection_status' = IF connects THEN [connection_status EXCEPT ![p] = "True"]
                                    ELSE connection_status
            /\ IF ret.data # NoData
               THEN \E db_ok \in BOOLEAN :
                    /\ current_data' = [current_data EXCEPT ![p] = ret.data]
                    /\ lastStep' = [Step("read_ok", p, connects, results, ret.attempted, ret.data)
                                        EXCEPT !.saved = db_ok]
                    /\ IF save_error_reaches_loop(db_ok)
                       THEN /\ retry_counts' = IF connects THEN [retry_counts EXCEPT ![p] = 0]
                                               ELSE retry_counts
                            /\ cursor' = Len(Order) + 1
                       ELSE /\ retry_counts' = [retry_counts EXCEPT ![p] = RetryAfterSuccess(@)]
                            /\ cursor' = cursor + 1
               ELSE /\ current_data' = current_data
                    /\ retry_counts' = [retry_counts EXCEPT
                                           ![p] = CountUp(IF connects THEN RetryAfterSuccess(@) ELSE @)]
                    /\ lastStep' = Step("read_none", p, connects, results, ret.attempted, NoData)
                    /\ cursor' = cursor + 1
    /\ UNCHANGED << appVars, otherVars, serviceVars, sideVars >>

\* after the for loop: save_current_data(), time.sleep(poll_interval), next cycle
EndCycle ==
    /\ cursor = Len(Order) + 1
    /\ cursor' = 1
    /\ lastStep' = Step("idle", None, FALSE, << >>, {}, NoData)
    /\ UNCHANGED << plc_connections, connection_status, current_data, retry_counts >>
    /\ UNCHANGED << appVars, otherVars, serviceVars, sideVars >>

PoolNext == SkipDisabled \/ ConnectFail \/ SkipMaxRetries \/ Poll \/ EndCycle


(***************************************************************************)
(* app.py: constants.                                                      *)
(***************************************************************************)
CYCLE_TIME == 150
TARGET_VALUE == 20

\* hourly unit counts held by the device are drawn from 0..MaxUnits
MaxUnits == 1
\* the number of hour changes of the wall clock in one behaviour
MaxTicks == 2
\* the number of iterations of the loop of read_plc in one behaviour
MaxIter == 1
\* unit counts passed to save_to_database in SpecSave are drawn from 0..MaxSaveUnits
MaxSaveUnits == 26
\* the hourly unit counts of SpecReport are 0 and MaxReportUnits
MaxReportUnits == 5
\* the number of process_hourly_data calls in one behaviour of SpecReport
MaxReportCalls == 1
\* the datetimes of SpecClean: days 1..MaxDay, hours 0..MaxCleanHour of each day, and
\* fractions 0..MaxMicro of each hour
MaxDay == 2
MaxCleanHour == 1
MaxMicro == 1
\* the number of snapshots saved to the history tables in one behaviour of SpecClean
MaxSnapshots == 3

Units == 0..MaxUnits
Hours == 0..23
Lines == {"1a", "1b"}
\* the line_id written for each key of day_data
LineId(l) == IF l = "1a" THEN "1A" ELSE "1B"

\* range(a, b) of Python
PyRange(a, b) == a..(b - 1)
Min(a, b) == IF a < b THEN a ELSE b
Max(a, b) == IF a > b THEN a ELSE b

\* int(x / d) of Python for integers x and d > 0: truncation toward zero
TruncDiv(x, d) == IF x >= 0 THEN x \div d ELSE -((-x) \div d)

\* a faulty variant of calculate_downtime_minutes, for testing the properties: the max(0, ...) guard is dropped
calculate_downtime_unclamped(actual_units) ==
    TruncDiv(3600 - (actual_units * CYCLE_TIME), 60)

\* round(x / d) of Python for integers x and d > 0: to the nearest integer, a half to
\* the even neighbour
RoundHalfEven(x, d) ==
    LET a == IF x >= 0 THEN x ELSE -x
        q == a \div d
        r == a % d
        n == IF 2 * r < d THEN q
             ELSE IF 2 * r > d THEN q + 1
             ELSE IF q % 2 = 0 THEN q ELSE q + 1
    IN  IF x >= 0 THEN n ELSE -n

\* a faulty variant of calculate_downtime_minutes, for testing the properties: round() instead of int()
calculate_downtime_rounded(actual_units) ==
    Max(0, RoundHalfEven(3600 - (actual_units * CYCLE_TIME), 60))

\* max(0, int((3600 - (actual_units * CYCLE_TIME)) / 60))
calculate_downtime_minutes(actual_units) ==
    Max(0, TruncDiv(3600 - (actual_units * CYCLE_TIME), 60))

(***************************************************************************)
(* The sqlite tables.  A table is a set of rows; a row carries the         *)
(* AUTOINCREMENT id, so two rows of equal content are two rows.            *)
(***************************************************************************)
NextId(table) == Cardinality(table) + 1

\* a faulty variant of save_to_database, for testing the properties: INSERT without the SELECT
save_to_database_insert_only(table, date_str, hr, line_id, shift, target, actual) ==
    table \cup { [id |-> NextId(table), date |-> date_str, hour |-> hr, line_id |-> line_id,
                  shift |-> shift, target |-> target, actual |-> actual,
                  downtime |-> calculate_downtime_minutes(actual)] }

\* save_to_database of app.py, when no sqlite call raises
save_to_database(table, date_str, hr, line_id, shift, target, actual) ==
    LET downtime_minutes == calculate_downtime_minutes(actual)
        Match(r) == r.date = date_str /\ r.hour = hr /\ r.line_id = line_id
    IN  IF \E r \in table : Match(r)
        THEN { IF Match(r)
               THEN [r EXCEPT !.target = target, !.actual = actual, !.downtime = downtime_minutes]
               ELSE r : r \in table }
        ELSE table \cup { [id |-> NextId(table), date |-> date_str, hour |-> hr,
                           line_id |-> line_id, shift |-> shift, target |-> target,
                           actual |-> actual, downtime |-> downtime_minutes] }

\* a faulty variant of save_daily_summary, for testing the properties: INSERT without
\* the SELECT
save_daily_summary_insert_only(table, date_str, line_id, shift, total_target, total_actual) ==
    table \cup { [id |-> NextId(table), date |-> date_str, line_id |-> line_id,
                  shift |-> shift, total_target |-> total_target,
                  total_actual |-> total_actual,
                  total_downtime |-> 12 * Max(0, TruncDiv(43200 - (CYCLE_TIME * total_actual), 720))] }

\* save_daily_summary, when no sqlite call raises.  total_actual / 12 is a float;
\* 12 times int((3600 - total_actual / 12 * 150) / 60) is computed exactly here as
\* 12 * int((43200 - 150 * total_actual) / 720)
save_daily_summary(table, date_str, line_id, shift, total_target, total_actual) ==
    LET total_downtime == 12 * Max(0, TruncDiv(43200 - (CYCLE_TIME * total_actual), 720))
        Match(r) == r.date = date_str /\ r.line_id = line_id /\ r.shift = shift
    IN  IF \E r \in table : Match(r)
        THEN { IF Match(r)
               THEN [r EXCEPT !.total_target = total_target, !.total_actual = total_actual,
                              !.total_downtime = total_downtime]
               ELSE r : r \in table }
        ELSE table \cup { [id |-> NextId(table), date |-> date_str, line_id |-> line_id,
                           shift |-> shift, total_target |-> total_target,
                           total_actual |-> total_actual, total_downtime |-> total_downtime] }

(***************************************************************************)
(* format_date.  The string "%Y-%m-%d" is modelled by the triple it is     *)
(* formatted from; NoDate is the None returned for an invalid date.        *)
(***************************************************************************)
\* datetime.now(eastern): the poller's calendar year and month
LocalNow == [year |-> 2025, month |-> 1]

NoDate == << >>

IsLeap(y) == (y % 4 = 0 /\ y % 100 # 0) \/ y % 400 = 0
DaysIn(y, m) ==
    IF m = 2 THEN (IF IsLeap(y) THEN 29 ELSE 28)
    ELSE IF m \in {4, 6, 9, 11} THEN 30 ELSE 31

format_date(month, day) ==
    LET year == IF LocalNow.month = 1 /\ month = 12 THEN LocalNow.year - 1 ELSE LocalNow.year
    IN  IF month \in 1..12 /\ day >= 1 /\ day <= DaysIn(year, month)
        THEN << year, month, day >>
        ELSE NoDate

(***************************************************************************)
(* The registers each read_plc_1a / read_plc_1b call asks for, by hour.    *)
(***************************************************************************)
Req(base, hours) == { [hour |-> i, reg |-> base + i, count |-> 1] : i \in hours }

\* a faulty variant of HourlyRequests, for testing the properties: the hour in progress is left out of the running shift
HourlyRequestsElapsed(current_hour) ==
    IF current_hour < 7
    THEN Req(800, PyRange(19, 24)) \cup Req(800, PyRange(0, 7)) \cup Req(800, PyRange(7, 19))
    ELSE IF current_hour >= 7 /\ current_hour < 19
    THEN Req(800, PyRange(7, Min(current_hour, 19)))
         \cup Req(850, PyRange(19, 24)) \cup Req(850, PyRange(0, 7))
    ELSE Req(800, PyRange(19, Min(current_hour, 24))) \cup Req(800, PyRange(7, 19))

\* the hourly reads of one call at current_hour, each of one register
HourlyRequests(current_hour) ==
    IF current_hour < 7
    THEN Req(800, PyRange(19, 24)) \cup Req(800, PyRange(0, 7)) \cup Req(800, PyRange(7, 19))
    ELSE IF current_hour >= 7 /\ current_hour < 19
    THEN Req(800, PyRange(7, Min(current_hour + 1, 19)))
         \cup Req(850, PyRange(19, 24)) \cup Req(850, PyRange(0, 7))
    ELSE Req(800, PyRange(19, Min(current_hour + 1, 24))) \cup Req(800, PyRange(7, 19))

\* the four date reads of read_plc_1a
DateRequests == { [hour |-> -1, reg |-> r, count |-> 1] : r \in {700, 710, 701, 711} }


(***************************************************************************)
(* What the devices answer.                                                *)
(***************************************************************************)
\* D700, D710, D701, D711 of SLAP1A: a date and its eve, the year's first day and
\* its eve, and registers that hold no date
DevDates ==
    { [day_month |-> 3, day_date |-> 10, yesterday_month |-> 3, yesterday_date |-> 9],
      [day_month |-> 1, day_date |-> 1, yesterday_month |-> 12, yesterday_date |-> 31],
      [day_month |-> 0, day_date |-> 0, yesterday_month |-> 0, yesterday_date |-> 0] }

\* the unit count held by the registers of the current-day block (D800..D823) and of
\* the previous-day block (D850..D873) during one call
DevBlocks == { [cur |-> u, prev |-> MaxUnits - u] : u \in Units }

\* the hourly reads of one call that raise: none, or the read of the hour in progress
FailSets(reqs, current_hour) == {{}} \cup { {r} : r \in { q \in reqs : q.hour = current_hour } }

\* the save_to_database calls of SpecSave: the date 2025-03-10, line 1A, and the first
\* hour of each shift
SaveKeys == { [date |-> << 2025, 3, 10 >>, hour |-> h, line_id |-> "1A"] : h \in {7, 19} }
NeverSaved == [calls |-> 0, target |-> 0, actual |-> 0, overwrote |-> FALSE]

NoRead == [line |-> None, connected |-> FALSE, ok |-> FALSE, hour |-> -1,
           dates |-> << >>, requests |-> {}, failed |-> {}]
NoProcess == [changed |-> FALSE, from |-> -1, to |-> -1, hour |-> -1, dates_ok |-> FALSE,
              db_ok |-> FALSE, rows |-> {}, summaries |-> {}]

AppStart(h) ==
    /\ hour = h
    /\ ticks = 0
    /\ iters = 0
    /\ pc = "loop"
    /\ loop_hour = h
    /\ last_hour = h
    /\ app_status = [l \in Lines |-> [connected |-> FALSE, last_error |-> None]]
    /\ current_date = [day_month |-> 0, day_date |-> 0, night_month |-> 0, night_date |-> 0]
    /\ day_data = [l \in Lines |-> [i \in Hours |-> [value |-> 0, downtime |-> 0]]]
    /\ production_data = {}
    /\ daily_summary = {}
    /\ lastRead = NoRead
    /\ lastProcess = NoProcess
    /\ last_saved = [k \in SaveKeys |-> NeverSaved]

\* the service starts at any hour of the day
AppInit == \E h \in Hours : AppStart(h)

\* the wall clock passes an hour boundary
Tick ==
    /\ ticks < MaxTicks
    /\ hour' = (hour + 1) % 24
    /\ ticks' = ticks + 1
    /\ UNCHANGED << iters, pc, loop_hour, last_hour, app_status, current_date, day_data,
                    production_data, daily_summary, lastRead, lastProcess, last_saved >>
    /\ UNCHANGED << poolVars, otherVars, serviceVars, sideVars >>

\* while True: now = datetime.now(eastern); current_hour = now.hour
LoopTop ==
    /\ pc = "loop"
    /\ iters < MaxIter
    /\ iters' = iters + 1
    /\ loop_hour' = hour
    /\ pc' = "1a"
    /\ lastProcess' = NoProcess
    /\ UNCHANGED << hour, ticks, last_hour, app_status, current_date, day_data,
                    production_data, daily_summary, lastRead, last_saved >>
    /\ UNCHANGED << poolVars, otherVars, serviceVars, sideVars >>

\* a faulty variant of NightDate, for testing the properties: the previous day is used while the night shift runs
NightDateSwapped(current_hour, d) ==
    IF (current_hour >= 19) \/ (current_hour < 7)
    THEN [month |-> d.yesterday_month, date |-> d.yesterday_date]
    ELSE [month |-> d.day_month, date |-> d.day_date]

\* the night shift date read_plc_1a stores at current_hour from the date registers
NightDate(current_hour, d) ==
    IF (current_hour >= 19) \/ (current_hour < 7)
    THEN [month |-> d.day_month, date |-> d.day_date]
    ELSE [month |-> d.yesterday_month, date |-> d.yesterday_date]

\* a faulty variant of StoreHourly, for testing the properties: a read that raised
\* blanks the entry of its hour
StoreHourlyBlanking(data, reqs, failed, blk) ==
    [i \in Hours |->
        IF \E r \in reqs : r.hour = i
        THEN LET r == CHOOSE r \in reqs : r.hour = i
                 value == IF r \in failed THEN 0 ELSE IF r.reg >= 850 THEN blk.prev ELSE blk.cur
             IN  [value |-> value, downtime |-> calculate_downtime_minutes(value)]
        ELSE data[i]]

\* day_data[line] after the hourly reads reqs, of which those in failed raised
StoreHourly(data, reqs, failed, blk) ==
    [i \in Hours |->
        IF \E r \in reqs \ failed : r.hour = i
        THEN LET r == CHOOSE r \in reqs \ failed : r.hour = i
                 value == IF r.reg >= 850 THEN blk.prev ELSE blk.cur
             IN  [value |-> value, downtime |-> calculate_downtime_minutes(value)]
        ELSE data[i]]

Failed(l) == [app_status EXCEPT ![l] = [connected |-> FALSE, last_error |-> "error"]]
Connected(l) == [app_status EXCEPT ![l] = [connected |-> TRUE, last_error |-> None]]

\* the state an iteration of read_plc leaves when both calls connected and every read
\* succeeded, the devices holding the date 03-10 and the block blk, in the hour h the
\* service started in (so process_hourly_data has not run)
AppCached(h, blk) ==
    LET d == [day_month |-> 3, day_date |-> 10, yesterday_month |-> 3, yesterday_date |-> 9]
        blank == [i \in Hours |-> [value |-> 0, downtime |-> 0]]
    IN  /\ hour = h
        /\ ticks = 0
        /\ iters = 0
        /\ pc = "loop"
        /\ loop_hour = h
        /\ last_hour = h
        /\ app_status = [l \in Lines |-> [connected |-> TRUE, last_error |-> None]]
        /\ current_date = [day_month |-> d.day_month, day_date |-> d.day_date,
                           night_month |-> NightDate(h, d).month,
                           night_date |-> NightDate(h, d).date]
        /\ day_data = [l \in Lines |-> StoreHourly(blank, HourlyRequests(h), {}, blk)]
        /\ production_data = {}
        /\ daily_summary = {}
        /\ lastRead = NoRead
        /\ lastProcess = NoProcess
        /\ last_saved = [k \in SaveKeys |-> NeverSaved]

\* every connect attempt of the call fails: return False
ReadConnectFail(l) ==
    /\ pc = l
    /\ app_status' = Failed(l)
    /\ lastRead' = [NoRead EXCEPT !.line = l]
    /\ pc' = IF l = "1a" THEN "1b" ELSE "process"
    /\ UNCHANGED << hour, ticks, iters, loop_hour, last_hour, current_date, day_data,
                    production_data, daily_summary, lastProcess, last_saved >>
    /\ UNCHANGED << poolVars, otherVars, serviceVars, sideVars >>

\* read_plc_1a: one of the four date reads raises after k - 1 of them succeeded
ReadDateFail ==
    /\ pc = "1a"
    /\ \E k \in 1..4 :
        lastRead' = [NoRead EXCEPT !.line = "1a", !.connected = TRUE, !.hour = hour,
                        !.requests = { r \in DateRequests :
                                         r.reg \in { << 700, 710, 701, 711 >>[j] : j \in 1..k } }]
    /\ app_status' = Failed("1a")
    /\ pc' = "1b"
    /\ UNCHANGED << hour, ticks, iters, loop_hour, last_hour, current_date, day_data,
                    production_data, daily_summary, lastProcess, last_saved >>
    /\ UNCHANGED << poolVars, otherVars, serviceVars, sideVars >>

\* read_plc_1a / read_plc_1b connect (after fewer than MAX_CONNECTION_RETRIES failed
\* attempts) and read: the dates (1a only), then the hourly registers
ReadOk(l) ==
    /\ pc = l
    /\ \E d \in DevDates, blk \in DevBlocks :
        LET current_hour == hour
            reqs == HourlyRequests(current_hour)
            night == NightDate(current_hour, d)
        IN  \E failed \in FailSets(reqs, current_hour) :
            /\ current_date' =
                   IF l = "1a"
                   THEN [day_month |-> d.day_month, day_date |-> d.day_date,
                         night_month |-> night.month, night_date |-> night.date]
                   ELSE current_date
            /\ day_data' = [day_data EXCEPT ![l] = StoreHourly(@, reqs, failed, blk)]
            /\ lastRead' = [line |-> l, connected |-> TRUE, ok |-> TRUE, hour |-> current_hour,
                            dates |-> IF l = "1a" THEN d ELSE << >>,
                            requests |-> reqs \cup (IF l = "1a" THEN DateRequests ELSE {}),
                            failed |-> failed]
    /\ app_status' = Connected(l)
    /\ pc' = IF l = "1a" THEN "1b" ELSE "process"
    /\ UNCHANGED << hour, ticks, iters, loop_hour, last_hour, production_data, daily_summary,
                    lastProcess, last_saved >>
    /\ UNCHANGED << poolVars, otherVars, serviceVars, sideVars >>

(***************************************************************************)
(* process_hourly_data                                                     *)
(***************************************************************************)
\* a faulty variant of day_hours, for testing the properties: the day shift loop runs one hour too far
day_hours_through_19 == << 7, 8, 9, 10, 11, 12, 13, 14, 15, 16, 17, 18, 19 >>

\* for hour in range(7, 19) and for hour in list(range(19, 24)) + list(range(0, 7))
day_hours == << 7, 8, 9, 10, 11, 12, 13, 14, 15, 16, 17, 18 >>
night_hours == << 19, 20, 21, 22, 23, 0, 1, 2, 3, 4, 5, 6 >>

\* the condition under which the row of a day shift hour is saved
DayDue(h, current_hour) ==
    (current_hour >= 7 /\ h <= current_hour) \/ current_hour >= 19 \/ current_hour < 7

\* the condition under which the row of a night shift hour is saved
NightDue(h, current_hour) ==
    (h >= 19 /\ current_hour >= h) \/ (h < 7 /\ current_hour >= h) \/ current_hour >= 7

\* the save_to_database calls of process_hourly_data, in the order made
HourlyCalls(current_hour, day_date_str, night_date_str, data) ==
    LET DueD(h) == DayDue(h, current_hour)
        DueN(h) == NightDue(h, current_hour)
        Calls(l, date_str, shift, hs) ==
            [k \in 1..Len(hs) |-> [date |-> date_str, hour |-> hs[k], line_id |-> LineId(l),
                                   shift |-> shift, target |-> TARGET_VALUE,
                                   actual |-> data[l][hs[k]].value]]
    IN  Calls("1a", day_date_str, "Day", SelectSeq(day_hours, DueD))
        \o Calls("1a", night_date_str, "Night", SelectSeq(night_hours, DueN))
        \o Calls("1b", day_date_str, "Day", SelectSeq(day_hours, DueD))
        \o Calls("1b", night_date_str, "Night", SelectSeq(night_hours, DueN))

RECURSIVE SumSeq(_)
SumSeq(seq) == IF seq = << >> THEN 0 ELSE Head(seq) + SumSeq(Tail(seq))

\* the save_daily_summary calls of process_hourly_data, in the order made
SummaryCalls(current_hour, day_date_str, night_date_str, data) ==
    LET DueD(h) == DayDue(h, current_hour)
        DueN(h) == NightDue(h, current_hour)
        Total(l, hs) == SumSeq([k \in 1..Len(hs) |-> data[l][hs[k]].value])
        Call(l, date_str, shift, hs) ==
            [date |-> date_str, line_id |-> LineId(l), shift |-> shift,
             total_target |-> TARGET_VALUE * 12, total_actual |-> Total(l, hs)]
    IN  << Call("1a", day_date_str, "Day", SelectSeq(day_hours, DueD)),
           Call("1b", day_date_str, "Day", SelectSeq(day_hours, DueD)),
           Call("1a", night_date_str, "Night", SelectSeq(night_hours, DueN)),
           Call("1b", night_date_str, "Night", SelectSeq(night_hours, DueN)) >>

RECURSIVE SaveHourly(_, _)
SaveHourly(table, calls) ==
    IF calls = << >> THEN table
    ELSE LET c == Head(calls)
         IN  SaveHourly(save_to_database(table, c.date, c.hour, c.line_id, c.shift,
                                         c.target, c.actual),
                        Tail(calls))

RECURSIVE SaveSummaries(_, _)
SaveSummaries(table, calls) ==
    IF calls = << >> THEN table
    ELSE LET c == Head(calls)
         IN  SaveSummaries(save_daily_summary(table, c.date, c.line_id, c.shift,
                                              c.total_target, c.total_actual),
                           Tail(calls))

Range(seq) == { seq[k] : k \in DOMAIN seq }

\* a faulty variant of HourChanged, for testing the properties: the hourly processing runs in every iteration
HourChangedAlways(current_hour, last) == TRUE

\* if current_hour != last_hour
HourChanged(current_hour, last) == current_hour # last

\* the rest of the loop body of read_plc: the hour-change test, process_hourly_data,
\* socketio.emit and eventlet.sleep(5).  db_ok: whether sqlite accepts the writes of
\* this call (every save swallows its own exception)
Process ==
    /\ pc = "process"
    /\ pc' = "loop"
    /\ IF HourChanged(loop_hour, last_hour)
       THEN \E db_ok \in BOOLEAN :
            LET current_hour == hour
                day_date_str == format_date(current_date.day_month, current_date.day_date)
                night_date_str == format_date(current_date.night_month, current_date.night_date)
                dates_ok == day_date_str # NoDate /\ night_date_str # NoDate
                rows == HourlyCalls(current_hour, day_date_str, night_date_str, day_data)
                sums == SummaryCalls(current_hour, day_date_str, night_date_str, day_data)
                writes == dates_ok /\ db_ok
            IN  /\ production_data' = IF writes THEN SaveHourly(production_data, rows)
                                      ELSE production_data
                /\ daily_summary' = IF writes THEN SaveSummaries(daily_summary, sums)
                                    ELSE daily_summary
                /\ lastProcess' = [changed |-> TRUE, from |-> last_hour, to |-> loop_hour,
                                   hour |-> current_hour, dates_ok |-> dates_ok,
                                   db_ok |-> db_ok,
                                   rows |-> IF writes THEN Range(rows) ELSE {},
                                   summaries |-> IF writes THEN Range(sums) ELSE {}]
                /\ last_hour' = loop_hour
       ELSE /\ lastProcess' = [NoProcess EXCEPT !.from = last_hour, !.to = loop_hour]
            /\ UNCHANGED << production_data, daily_summary, last_hour >>
    /\ lastRead' = NoRead
    /\ UNCHANGED << hour, ticks, iters, loop_hour, app_status, current_date, day_data, last_saved >>
    /\ UNCHANGED << poolVars, otherVars, serviceVars, sideVars >>

AppNext ==
    \/ Tick
    \/ LoopTop
    \/ \E l \in Lines : ReadConnectFail(l)
    \/ ReadDateFail
    \/ \E l \in Lines : ReadOk(l)
    \/ Process

(***************************************************************************)
(* save_to_database called on its own, any number of times.                *)
(***************************************************************************)
\* the shift process_hourly_data passes with an hour (day_hours, night_hours)
ShiftOf(h) == IF h \in Range(day_hours) THEN "Day" ELSE "Night"

\* one call save_to_database(date, hour, line, shift, TARGET_VALUE, actual); with
\* ~db_ok a sqlite call raises, the exception is logged and nothing is written
SaveCall ==
    \E k \in SaveKeys, actual \in 0..MaxSaveUnits, db_ok \in BOOLEAN :
        /\ production_data' =
               IF db_ok
               THEN save_to_database(production_data, k.date, k.hour, k.line_id, ShiftOf(k.hour),
                                     TARGET_VALUE, actual)
               ELSE production_data
        /\ last_saved' =
               IF db_ok
               THEN [last_saved EXCEPT ![k] =
                        [calls |-> Min(@.calls + 1, 2), target |-> TARGET_VALUE, actual |-> actual,
                         overwrote |-> @.calls > 0 /\ @.actual # actual]]
               ELSE last_saved
        /\ UNCHANGED << hour, ticks, iters, pc, loop_hour, last_hour, app_status, current_date,
                        day_data, daily_summary, lastRead, lastProcess >>
        /\ UNCHANGED << poolVars, otherVars, serviceVars, sideVars >>

\* total_actual of a save_daily_summary call goes up to this
MaxSummaryUnits == 2

\* the save_daily_summary calls of SpecSummary: on 2025-03-10 both shifts of line 1A
\* and the day shift of line 1B, and the day shift of line 1A on the next date
SummaryKeys ==
    { [date |-> << 2025, 3, 10 >>, line_id |-> "1A", shift |-> "Day"],
      [date |-> << 2025, 3, 10 >>, line_id |-> "1A", shift |-> "Night"],
      [date |-> << 2025, 3, 10 >>, line_id |-> "1B", shift |-> "Day"],
      [date |-> << 2025, 3, 11 >>, line_id |-> "1A", shift |-> "Day"] }

\* one call save_daily_summary(date, line, shift, TARGET_VALUE * 12, total_actual); with
\* ~db_ok a sqlite call raises, the exception is logged and nothing is committed
SummaryCall ==
    \E k \in SummaryKeys, total_actual \in 0..MaxSummaryUnits, db_ok \in BOOLEAN :
        /\ daily_summary' =
               IF db_ok
               THEN save_daily_summary(daily_summary, k.date, k.line_id, k.shift,
                                       TARGET_VALUE * 12, total_actual)
               ELSE daily_summary
        /\ lastProcess' =
               [NoProcess EXCEPT !.db_ok = db_ok,
                                 !.summaries = { [date |-> k.date, line_id |-> k.line_id,
                                                  shift |-> k.shift,
                                                  total_target |-> TARGET_VALUE * 12,
                                                  total_actual |-> total_actual] }]
        /\ UNCHANGED << hour, ticks, iters, pc, loop_hour, last_hour, app_status, current_date,
                        day_data, production_data, lastRead, last_saved >>
        /\ UNCHANGED << poolVars, otherVars, serviceVars, sideVars >>

(***************************************************************************)
(* The report queries of app.py, on the tables process_hourly_data fills.  *)
(***************************************************************************)
\* a faulty variant of AchievementRate, for testing the properties: the tenth is cut
\* off, not rounded
AchievementRateTruncated(actual, target) ==
    IF target > 0 THEN (actual * 1000) \div target ELSE 0

\* round(x, 1) of actual / target * 100, in tenths of a percent; 0 when target is 0.
\* Python rounds the float to the nearest tenth, an exact half to the even tenth; for
\* the unit counts drawn here the float quotient rounds as the exact one does
AchievementRate(actual, target) ==
    IF target > 0 THEN RoundHalfEven(actual * 1000, target) ELSE 0

RECURSIVE SumTarget(_)
SumTarget(rows) ==
    IF rows = {} THEN 0
    ELSE LET r == CHOOSE x \in rows : TRUE
         IN  r.target + SumTarget(rows \ {r})

RECURSIVE SumActual(_)
SumActual(rows) ==
    IF rows = {} THEN 0
    ELSE LET r == CHOOSE x \in rows : TRUE
         IN  r.actual + SumActual(rows \ {r})

\* date strings "%Y-%m-%d" compare as the triples they are formatted from
DateLeq(a, b) ==
    \/ a[1] < b[1]
    \/ a[1] = b[1] /\ a[2] < b[2]
    \/ a[1] = b[1] /\ a[2] = b[2] /\ a[3] <= b[3]

\* get_production_history(start_date, end_date): one entry per (date, line_id, shift)
\* of the rows with date BETWEEN start_date AND end_date (the order of the list is
\* not modelled)
get_production_history(table, start_date, end_date) ==
    LET rows == { r \in table : DateLeq(start_date, r.date) /\ DateLeq(r.date, end_date) }
        Group(g) == { r \in rows : r.date = g.date /\ r.line_id = g.line_id /\ r.shift = g.shift }
    IN  { [date |-> g.date, line_id |-> g.line_id, shift |-> g.shift,
           total_target |-> SumTarget(Group(g)), total_actual |-> SumActual(Group(g)),
           achievement_rate |-> AchievementRate(SumActual(Group(g)), SumTarget(Group(g)))] :
          g \in { [date |-> r.date, line_id |-> r.line_id, shift |-> r.shift] : r \in rows } }

\* get_hourly_production(date, line_id, shift): one entry per row of the shift
get_hourly_production(table, date, line_id, shift) ==
    { [hour |-> r.hour, target |-> r.target, actual |-> r.actual,
       achievement_rate |-> AchievementRate(r.actual, r.target)] :
      r \in { x \in table : x.date = date /\ x.line_id = line_id /\ x.shift = shift } }

NoReport == [kind |-> "none", args |-> << >>, rows |-> {}]

(***************************************************************************)
(* plc_monitor_master.py: the history tables and cleanup_old_data.         *)
(* A datetime is [day, hour, micro]: a day number, an hour of the day and  *)
(* the part of the hour below it.                                          *)
(***************************************************************************)
\* settings['history_retention_hours']
history_retention_hours == 24

\* the datetimes of the model
Times == [day : 1..MaxDay, hour : 0..MaxCleanHour, micro : 0..MaxMicro]

\* a < b for datetimes
Earlier(a, b) ==
    \/ a.day < b.day
    \/ a.day = b.day /\ a.hour < b.hour
    \/ a.day = b.day /\ a.hour = b.hour /\ a.micro < b.micro

\* dt - timedelta(hours=n)
MinusHours(dt, n) ==
    LET total == (dt.day * 24 + dt.hour) - n
    IN  [day |-> total \div 24, hour |-> total % 24, micro |-> dt.micro]

\* datetime.isoformat(): the fixed-width fields in order, the fraction left out when
\* it is zero.  The string is modelled as the sequence of its fields
isoformat(dt) == IF dt.micro = 0 THEN << dt.day, dt.hour >> ELSE << dt.day, dt.hour, dt.micro >>

\* a faulty variant of StrLess, for testing the properties: a <= b
StrLeq(a, b) ==
    \/ a = b
    \/ \E k \in 1..Len(a) :
          /\ k <= Len(b)
          /\ \A j \in 1..(k - 1) : a[j] = b[j]
          /\ a[k] < b[k]
    \/ Len(a) < Len(b) /\ \A j \in 1..Len(a) : a[j] = b[j]

\* a < b for TEXT values in sqlite: the first differing position decides, and a proper
\* prefix is smaller
StrLess(a, b) ==
    \/ \E k \in 1..Len(a) :
          /\ k <= Len(b)
          /\ \A j \in 1..(k - 1) : a[j] = b[j]
          /\ a[k] < b[k]
    \/ Len(a) < Len(b) /\ \A j \in 1..Len(a) : a[j] = b[j]

NoCleanup == [ran |-> FALSE, ok |-> FALSE, cutoff |-> << >>, history |-> {}, status |-> {}]

OtherInit ==
    /\ report = NoReport
    /\ wall_clock = [day |-> 1, hour |-> 0, micro |-> 0]
    /\ plc_history = {}
    /\ connection_log = {}
    /\ history_seq = 0
    /\ lastCleanup = NoCleanup

\* time passes
ClockAdvance ==
    /\ \E t \in Times : Earlier(wall_clock, t) /\ wall_clock' = t
    /\ lastCleanup' = NoCleanup
    /\ UNCHANGED << report, plc_history, connection_log, history_seq >>
    /\ UNCHANGED << appVars, poolVars, serviceVars, sideVars >>

\* PLCDataPool.save_to_database(plc_data) for a snapshot of 1B read now: one
\* plc_history row per register and one connection_status row
SaveSnapshot ==
    /\ history_seq < MaxSnapshots
    /\ \E results \in ReadResults("1B") :
        LET plc_data == read_plc_data("1B", results).data
            timestamp_str == isoformat(wall_clock)
        IN  /\ plc_data # NoData
            /\ plc_history' = plc_history \cup
                   { [id |-> history_seq + 1, plc_id |-> plc_data.plc_id,
                      timestamp |-> timestamp_str, register_name |-> a,
                      register_value |-> plc_data.registers[a]] : a \in DOMAIN plc_data.registers }
            /\ connection_log' = connection_log \cup
                   { [id |-> history_seq + 1, plc_id |-> plc_data.plc_id,
                      timestamp |-> timestamp_str, connected |-> plc_data.connection_status,
                      error_message |-> plc_data.error_message] }
    /\ history_seq' = history_seq + 1
    /\ lastCleanup' = NoCleanup
    /\ UNCHANGED << report, wall_clock >>
    /\ UNCHANGED << appVars, poolVars, serviceVars, sideVars >>

\* cleanup_old_data(); with ~db_ok a sqlite call raises and the connection rolls back
Cleanup ==
    /\ \E db_ok \in BOOLEAN :
        LET cutoff_time == MinusHours(wall_clock, history_retention_hours)
            cutoff_str == isoformat(cutoff_time)
        IN  /\ plc_history' = IF db_ok
                               THEN { r \in plc_history : ~StrLess(r.timestamp, cutoff_str) }
                               ELSE plc_history
            /\ connection_log' = IF db_ok
                                  THEN { r \in connection_log : ~StrLess(r.timestamp, cutoff_str) }
                                  ELSE connection_log
            /\ lastCleanup' = [ran |-> TRUE, ok |-> db_ok, cutoff |-> cutoff_time,
                               history |-> plc_history, status |-> connection_log]
    /\ UNCHANGED << report, wall_clock, history_seq >>
    /\ UNCHANGED << appVars, poolVars, serviceVars, sideVars >>

\* the hourly counts the two devices hold when process_hourly_data runs: v units in
\* the hour in progress, u units in every other hour
ReportUnits == {0, MaxReportUnits}
ReportData(c, u, v) ==
    [l \in Lines |-> [i \in Hours |->
        LET value == IF i = c THEN v ELSE u
        IN  [value |-> value, downtime |-> calculate_downtime_minutes(value)]]]

\* the dates the queries ask for
ReportDates == { format_date(3, 9), format_date(3, 10) }

\* process_hourly_data at hour c, after reads that left the dates 03-10 / 03-09 of the
\* device in current_date and the counts ReportData(c, u, v) in day_data
HourlySave ==
    /\ iters < MaxReportCalls
    /\ iters' = iters + 1
    /\ \E c \in Hours, u \in ReportUnits, v \in ReportUnits :
        LET d == [day_month |-> 3, day_date |-> 10, yesterday_month |-> 3, yesterday_date |-> 9]
            night == NightDate(c, d)
            data == ReportData(c, u, v)
            day_date_str == format_date(d.day_month, d.day_date)
            night_date_str == format_date(night.month, night.date)
        IN  /\ hour' = c
            /\ current_date' = [day_month |-> d.day_month, day_date |-> d.day_date,
                                night_month |-> night.month, night_date |-> night.date]
            /\ day_data' = data
            /\ production_data' =
                   SaveHourly(production_data, HourlyCalls(c, day_date_str, night_date_str, data))
            /\ daily_summary' =
                   SaveSummaries(daily_summary, SummaryCalls(c, day_date_str, night_date_str, data))
    /\ UNCHANGED << ticks, pc, loop_hour, last_hour, app_status, lastRead, lastProcess,
                    last_saved >>
    /\ UNCHANGED << poolVars, otherVars, serviceVars, sideVars >>

\* a request that calls get_production_history
QueryHistory ==
    /\ UNCHANGED << wall_clock, plc_history, connection_log, history_seq, lastCleanup >>
    /\ \E start_date \in ReportDates, end_date \in ReportDates :
          report' = [kind |-> "history", args |-> << start_date, end_date >>,
                     rows |-> get_production_history(production_data, start_date, end_date)]
    /\ UNCHANGED << appVars, poolVars, serviceVars, sideVars >>

\* a request that calls get_hourly_production
QueryHourly ==
    /\ UNCHANGED << wall_clock, plc_history, connection_log, history_seq, lastCleanup >>
    /\ \E date \in ReportDates, line_id \in {"1A", "1B"}, shift \in {"Day", "Night"} :
          report' = [kind |-> "hourly", args |-> << date, line_id, shift >>,
                     rows |-> get_hourly_production(production_data, date, line_id, shift)]
    /\ UNCHANGED << appVars, poolVars, serviceVars, sideVars >>

(***************************************************************************)
(* The service of plc_monitor_master.py: start(), stop(), the collection   *)
(* threads they leave running, and the readers of current_data.  connect   *)
(* succeeds here; the failing branches of the loop body are in PoolNext.   *)
(***************************************************************************)
\* collection threads that start() may create
MaxLoops == 2
\* reads completed by all threads together
MaxPolls == 2

LoopIds == 1..MaxLoops

\* PLCData(plc_id=plc_id, timestamp=datetime.now(), registers=registers, ...)
PLCData(data, now) ==
    [plc_id |-> data.plc_id, timestamp |-> now, registers |-> data.registers,
     connection_status |-> data.connection_status, error_message |-> data.error_message]

\* what the device answers in this specification: the ranges of one start register
\* fail or succeed together, and every word read is MaxWord
ServiceResults(p) ==
    LET rs == plc_configs[p].register_ranges
    IN  { r \in ReadResults(p) :
            /\ \A i \in DOMAIN r : r[i].ok => \A j \in DOMAIN r[i].values : r[i].values[j] = MaxWord
            /\ \A i, k \in DOMAIN r :
                  rs[i].start_register \div 100 = rs[k].start_register \div 100 => r[i].ok = r[k].ok }

\* per device, the answers of the loops specification: any range may fail, and every
\* word read is MaxWord (the words read play no part in where the loop goes next)
LoopResults ==
    [p \in PLCS |->
        { r \in ReadResultsOf[p] :
            \A i \in DOMAIN r : r[i].ok => \A j \in DOMAIN r[i].values : r[i].values[j] = MaxWord }]

\* every read on a session that was closed raises
ClosedResults(p) == { r \in ReadResults(p) : \A i \in DOMAIN r : ~r[i].ok }

\* the register names a get_register_data call asks for
register_names == {800, 5000, 52}

\* a timestamp of None
NoTime == 0 - 1

NoCall == [kind |-> "none", pc |-> "idle", plc |-> None, ref |-> NoData, during |-> {NoData},
           last_update |-> NoTime, register_count |-> 0, registers |-> EmptyMap]

\* __init__: self.running = False, self.threads = []
ServiceInit ==
    /\ running = FALSE
    /\ threads = [t \in LoopIds |-> [pc |-> "unborn", cursor |-> Len(Order) + 1, snap |-> NoData]]
    /\ closed = {}
    /\ poll_time = 0
    /\ data_lock = None
    /\ reader = NoCall

\* start(): if self.running: return; otherwise a new thread runs data_collection_loop
start ==
    /\ ~running
    /\ running' = TRUE
    /\ \E t \in LoopIds :
          /\ threads[t].pc = "unborn"
          /\ \A u \in 1..(t - 1) : threads[u].pc # "unborn"
          /\ threads' = [threads EXCEPT ![t].pc = "loop"]
    /\ UNCHANGED << closed, poll_time, data_lock, reader >>
    /\ UNCHANGED << poolVars, appVars, otherVars, sideVars >>

\* stop(): self.running = False, every stored session is closed, and
\* thread.join(timeout=5) returns whether or not the thread has ended
stop ==
    /\ running
    /\ running' = FALSE
    /\ closed' = closed \cup plc_connections
    /\ UNCHANGED << threads, poll_time, data_lock, reader >>
    /\ UNCHANGED << poolVars, appVars, otherVars, sideVars >>

LoopAt(t) == Order[threads[t].cursor]

\* while self.running: at the top of the loop, after the sleep of the cycle before
LoopTest(t) ==
    /\ threads[t].pc = "loop"
    /\ threads[t].cursor = Len(Order) + 1
    /\ threads' = IF running THEN [threads EXCEPT ![t].cursor = 1]
                  ELSE [threads EXCEPT ![t].pc = "exited"]
    /\ UNCHANGED << running, closed, poll_time, data_lock, reader >>
    /\ UNCHANGED << poolVars, appVars, otherVars, sideVars >>

\* if not config.enabled: continue
LoopSkip(t) ==
    /\ threads[t].pc = "loop"
    /\ threads[t].cursor \in 1..Len(Order)
    /\ ~plc_configs[LoopAt(t)].enabled
    /\ threads' = [threads EXCEPT ![t].cursor = @ + 1]
    /\ UNCHANGED << running, closed, poll_time, data_lock, reader >>
    /\ UNCHANGED << poolVars, appVars, otherVars, sideVars >>

\* the connection check, connect_plc when it is needed, and the call of read_plc_data
LoopBeginRead(t) ==
    /\ threads[t].pc = "loop"
    /\ threads[t].cursor \in 1..Len(Order)
    /\ plc_configs[LoopAt(t)].enabled
    /\ poll_time < MaxPolls
    /\ LET p == LoopAt(t)
           connects == NeedsConnect(p)
       IN  /\ plc_connections' = IF connects THEN plc_connections \cup {p} ELSE plc_connections
           /\ connection_status' = IF connects THEN [connection_status EXCEPT ![p] = "True"]
                                   ELSE connection_status
           /\ closed' = IF connects THEN closed \ {p} ELSE closed
    /\ threads' = [threads EXCEPT ![t].pc = "reading"]
    /\ UNCHANGED << running, poll_time, data_lock, reader >>
    /\ UNCHANGED << current_data, retry_counts, cursor, lastStep >>
    /\ UNCHANGED << appVars, otherVars, sideVars >>

\* read_plc_data returns: a PLCData stamped datetime.now(), or None
LoopEndRead(t) ==
    /\ threads[t].pc = "reading"
    /\ LET p == LoopAt(t)
       IN  \E results \in (IF p \in closed THEN ClosedResults(p) ELSE ServiceResults(p)) :
             LET plc_data == read_plc_data(p, results).data
             IN  IF plc_data # NoData
                 THEN /\ threads' = [threads EXCEPT ![t].pc = "store",
                                                     ![t].snap = PLCData(plc_data, poll_time)]
                      /\ poll_time' = poll_time + 1
                 ELSE /\ threads' = [threads EXCEPT ![t].pc = "loop", ![t].cursor = @ + 1]
                      /\ poll_time' = poll_time
    /\ UNCHANGED << running, closed, data_lock, reader >>
    /\ UNCHANGED << poolVars, appVars, otherVars, sideVars >>

\* with self.data_lock: self.current_data[plc_id] = plc_data
LoopStore(t) ==
    /\ threads[t].pc = "store"
    /\ data_lock = None
    /\ LET p == LoopAt(t)
           plc_data == threads[t].snap
       IN  /\ current_data' = [current_data EXCEPT ![p] = plc_data]
           /\ reader' = IF reader.pc \notin {"idle", "done"} /\ reader.plc = p
                        THEN [reader EXCEPT !.during = @ \cup {plc_data}]
                        ELSE reader
    /\ threads' = [threads EXCEPT ![t].pc = "loop", ![t].cursor = @ + 1, ![t].snap = NoData]
    /\ UNCHANGED << running, closed, poll_time, data_lock >>
    /\ UNCHANGED << plc_connections, connection_status, retry_counts, cursor, lastStep >>
    /\ UNCHANGED << appVars, otherVars, sideVars >>

Call(kind, p) ==
    [kind |-> kind, pc |-> "got", plc |-> p, ref |-> current_data[p], during |-> {current_data[p]},
     last_update |-> NoTime, register_count |-> 0, registers |-> EmptyMap]

\* a faulty variant of HealthRef, for testing the properties: each field is read
\* through the cache again
HealthRefShared(local, shared) == shared

\* health_check reads the fields through its local plc_data
HealthRef(local, shared) == local

\* health_check: plc_data = data_pool.current_data.get(plc_id), without the lock
health_check_get ==
    /\ reader.pc \in {"idle", "done"}
    /\ \E p \in PLCS : reader' = Call("health", p)
    /\ UNCHANGED << running, threads, closed, poll_time, data_lock >>
    /\ UNCHANGED << poolVars, appVars, otherVars, sideVars >>

\* 'last_update': plc_data.timestamp.isoformat() if plc_data else None
health_check_last_update ==
    /\ reader.kind = "health" /\ reader.pc = "got"
    /\ reader' = [reader EXCEPT
                    !.pc = "stamped",
                    !.last_update = IF reader.ref # NoData
                                    THEN HealthRef(reader.ref, current_data[reader.plc]).timestamp
                                    ELSE NoTime]
    /\ UNCHANGED << running, threads, closed, poll_time, data_lock >>
    /\ UNCHANGED << poolVars, appVars, otherVars, sideVars >>

\* 'register_count': len(plc_data.registers) if plc_data else 0
health_check_register_count ==
    /\ reader.kind = "health" /\ reader.pc = "stamped"
    /\ reader' = [reader EXCEPT
                    !.pc = "done",
                    !.register_count =
                        IF reader.ref # NoData
                        THEN Cardinality(DOMAIN HealthRef(reader.ref, current_data[reader.plc]).registers)
                        ELSE 0]
    /\ UNCHANGED << running, threads, closed, poll_time, data_lock >>
    /\ UNCHANGED << poolVars, appVars, otherVars, sideVars >>

\* get_current_data(plc_id) and get_register_data(plc_id, names):
\* with self.data_lock: plc_data = self.current_data.get(plc_id)
locked_get ==
    /\ reader.pc \in {"idle", "done"}
    /\ data_lock = None
    /\ data_lock' = "reader"
    /\ \E kind \in {"current", "register"}, p \in PLCS : reader' = Call(kind, p)
    /\ UNCHANGED << running, threads, closed, poll_time >>
    /\ UNCHANGED << poolVars, appVars, otherVars, sideVars >>

\* get_current_data: 'timestamp': plc_data.timestamp.isoformat()
get_current_data_timestamp ==
    /\ reader.kind = "current" /\ reader.pc = "got"
    /\ reader' = [reader EXCEPT
                    !.pc = "stamped",
                    !.last_update = IF reader.ref # NoData THEN reader.ref.timestamp ELSE NoTime]
    /\ UNCHANGED << running, threads, closed, poll_time, data_lock >>
    /\ UNCHANGED << poolVars, appVars, otherVars, sideVars >>

\* get_current_data: 'registers': plc_data.registers, then the lock is released
get_current_data_registers ==
    /\ reader.kind = "current" /\ reader.pc = "stamped"
    /\ reader' = [reader EXCEPT
                    !.pc = "done",
                    !.registers = IF reader.ref # NoData THEN reader.ref.registers ELSE EmptyMap]
    /\ data_lock' = None
    /\ UNCHANGED << running, threads, closed, poll_time >>
    /\ UNCHANGED << poolVars, appVars, otherVars, sideVars >>

\* get_register_data: the registers asked for that the snapshot has, then the lock
\* is released
get_register_data ==
    /\ reader.kind = "register" /\ reader.pc = "got"
    /\ reader' = [reader EXCEPT
                    !.pc = "done",
                    !.registers = IF reader.ref # NoData
                                  THEN [a \in register_names \cap DOMAIN reader.ref.registers |->
                                            reader.ref.registers[a]]
                                  ELSE EmptyMap]
    /\ data_lock' = None
    /\ UNCHANGED << running, threads, closed, poll_time >>
    /\ UNCHANGED << poolVars, appVars, otherVars, sideVars >>

LoopStep == \E t \in LoopIds : LoopTest(t) \/ LoopSkip(t) \/ LoopBeginRead(t) \/ LoopEndRead(t) \/ LoopStore(t)

(***************************************************************************)
(* Construction of the pool: __init__ calls load_config, which parses the  *)
(* device definitions of the configuration file in order.                  *)
(***************************************************************************)
\* device definitions in a configuration file
MaxDevices == 3
\* register ranges of one device definition
MaxRanges == 2

\* a range definition: the three fields of PLCRegisterRange, one of them missing, or
\* a field PLCRegisterRange does not have
RangeDefs == {"ok", "missing", "unknown"}

\* the "plcs" objects drawn: the first n device ids, each with up to MaxRanges ranges
ConfigFiles ==
    UNION { [1..n -> UNION { [1..k -> RangeDefs] : k \in 0..MaxRanges }] : n \in 0..MaxDevices }

DeviceId(i) == << "1A", "1B", "1C" >>[i]

\* PLCRegisterRange(**range_data) raises TypeError unless the keys are exactly its fields
RangeRaises(range_data) == range_data # "ok"

\* for range_data in ...: register_ranges.append(PLCRegisterRange(**range_data))
DeviceRaises(plc_data) == \E k \in DOMAIN plc_data : RangeRaises(plc_data[k])

\* the for loop of load_config over config['plcs'].items(): the devices stored in
\* self.plc_configs, and whether an exception ended the loop
RECURSIVE LoadDevices(_, _, _)
LoadDevices(file, i, acc) ==
    IF i > Len(file) THEN [configs |-> acc, raised |-> FALSE]
    ELSE IF DeviceRaises(file[i]) THEN [configs |-> acc, raised |-> TRUE]
         ELSE LoadDevices(file, i + 1, acc \cup {DeviceId(i)})

\* read_plc is in its idle wait and no call is in progress
NoCallYet == [line |-> None, phase |-> "idle", retry_count |-> 0, attempts |-> 0, waits |-> 0,
              waited |-> 0, recovery_logs |-> 0, registers_read |-> FALSE, result |-> "none"]

NoResponse == [route |-> "none", plc_id |-> None, args |-> << >>, body |-> EmptyMap]

\* the pool is not constructed
SideInit ==
    /\ config_file = << >>
    /\ loaded_configs = {}
    /\ startup = "new"
    /\ response = NoResponse
    /\ requests = 0
    /\ call = NoCallYet
    /\ begun = 0

ConfigInit ==
    /\ config_file \in ConfigFiles
    /\ loaded_configs = {}
    /\ startup = "new"
    /\ response = NoResponse
    /\ requests = 0
    /\ call = NoCallYet
    /\ begun = 0

\* PLCDataPool.__init__: load_config(); except Exception: logger.error(...); raise
load_config ==
    /\ startup = "new"
    /\ LET loaded == LoadDevices(config_file, 1, {})
       IN  /\ loaded_configs' = loaded.configs
           /\ startup' = IF loaded.raised THEN "raised" ELSE "started"
    /\ UNCHANGED << config_file, response, requests, call, begun >>
    /\ UNCHANGED << poolVars, appVars, otherVars, serviceVars >>

(***************************************************************************)
(* The registers endpoint, /api/plc/<plc_id>/registers, on the cache.  A   *)
(* register name is the sequence of the register numbers written in it,    *)
(* separated by commas: << 800 >> is "D800", << 800, 52 >> is "D800,D52",  *)
(* and << Blank >> is a name of spaces only.                               *)
(***************************************************************************)
\* requests to the endpoints in one behaviour
MaxRequests == 1
\* values of the 'registers' query parameter in one request
MaxArgs == 2
\* register names in one value
MaxNames == 2

Blank == 0
QueryNames == {Blank, 800, 52}
QueryValues == UNION { [1..k -> QueryNames] : k \in 1..MaxNames }
QueryArgs == UNION { [1..n -> QueryValues] : n \in 0..MaxArgs }

\* the snapshots a poll of p can have left in the cache
Snapshots(p) ==
    IF plc_configs[p].enabled
    THEN {NoData} \cup { read_plc_data(p, results).data : results \in ReadResults(p) }
    ELSE {NoData}

\* the names of a list, each a sequence of one number
Singles(value) == [i \in DOMAIN value |-> << value[i] >>]

\* [name.strip() for name in register_names if name.strip()]
RECURSIVE StripNames(_)
StripNames(names) ==
    IF names = << >> THEN << >>
    ELSE IF Head(names) = << Blank >> THEN StripNames(Tail(names))
         ELSE << Head(names) >> \o StripNames(Tail(names))

\* getlist('registers'), split at the commas when there is one value holding a comma
RequestedNames(args) ==
    StripNames(IF Len(args) = 1 /\ Len(args[1]) > 1 THEN Singles(args[1]) ELSE args)

\* a faulty variant of get_register_data_result, for testing the properties: a name
\* the snapshot lacks is returned with the value 0
get_register_data_padded(cache, plc_id, names) ==
    LET plc_data == cache[plc_id]
    IN  IF plc_data = NoData THEN EmptyMap
        ELSE [n \in { names[i] : i \in DOMAIN names } |->
                 IF Len(n) = 1 /\ n[1] \in DOMAIN plc_data.registers
                 THEN plc_data.registers[n[1]] ELSE 0]

\* PLCDataPool.get_register_data(plc_id, register_names)
get_register_data_result(cache, plc_id, names) ==
    LET plc_data == cache[plc_id]
    IN  IF plc_data = NoData THEN EmptyMap
        ELSE [n \in { m \in { names[i] : i \in DOMAIN names } :
                        Len(m) = 1 /\ m[1] \in DOMAIN plc_data.registers } |->
                 plc_data.registers[n[1]]]

\* get_current_data(plc_id).get('registers', {}), keyed by name
AllRegisters(cache, plc_id) ==
    LET plc_data == cache[plc_id]
    IN  IF plc_data = NoData THEN EmptyMap
        ELSE [n \in { << a >> : a \in DOMAIN plc_data.registers } |-> plc_data.registers[n[1]]]

ApiInit ==
    /\ config_file = << >>
    /\ loaded_configs = {}
    /\ startup = "new"
    /\ response = NoResponse
    /\ requests = 0
    /\ call = NoCallYet
    /\ begun = 0

\* the cache holds, for every device, nothing or a snapshot a poll produced
CacheInit ==
    /\ plc_connections = {}
    /\ connection_status = [p \in PLCS |-> "absent"]
    /\ current_data \in [PLCS -> UNION { Snapshots(p) : p \in PLCS }]
    /\ \A p \in PLCS : current_data[p] \in Snapshots(p)
    /\ retry_counts = [p \in PLCS |-> 0]
    /\ cursor = 1
    /\ lastStep = [kind |-> "start", plc |-> None, connected |-> FALSE,
                   results |-> << >>, attempted |-> {}, data |-> NoData, saved |-> FALSE,
                   retries_before |-> 0]

\* get_plc_registers(plc_id) with the query string args
get_plc_registers ==
    /\ requests < MaxRequests
    /\ requests' = requests + 1
    /\ \E plc_id \in PLCS, args \in QueryArgs :
        LET requested == RequestedNames(args)
        IN  response' = [route |-> "registers", plc_id |-> plc_id, args |-> args,
                         body |-> IF requested = << >>
                                  THEN AllRegisters(current_data, plc_id)
                                  ELSE get_register_data_result(current_data, plc_id,
                                                                requested)]
    /\ UNCHANGED << config_file, loaded_configs, startup, call, begun >>
    /\ UNCHANGED << poolVars, appVars, otherVars, serviceVars >>

(***************************************************************************)
(* read_plc of app.py with read_plc_1a / read_plc_1b step by step: every   *)
(* connect attempt, every wait, the register reads and the return.         *)
(***************************************************************************)
\* iterations of read_plc in one behaviour
MaxCalls == 2

\* where the tallies kept of one call (attempts, waits) stop counting
MaxTally == 6

MAX_CONNECTION_RETRIES == 5
RETRY_INTERVAL == 3

\* the variables of app.py other than connection_status
appRest == << hour, ticks, iters, pc, loop_hour, last_hour, current_date, day_data,
              production_data, daily_summary, lastRead, lastProcess, last_saved >>

restVars == << config_file, loaded_configs, startup, response, requests >>

NewCall(l) == [NoCallYet EXCEPT !.line = l, !.phase = "connect"]

\* one more attempt or wait of the call observed
Tally(n) == IF n < MaxTally THEN n + 1 ELSE n

\* a faulty variant of RetriesLeft, for testing the properties: one attempt more
RetriesLeftInclusive(retry_count) == retry_count <= MAX_CONNECTION_RETRIES

\* retry_count < MAX_CONNECTION_RETRIES, the test of the while and of the wait
RetriesLeft(retry_count) == retry_count < MAX_CONNECTION_RETRIES

\* a faulty variant of Recovered, for testing the properties: the stored error stays
RecoveredKeepingError(status) == [status EXCEPT !.connected = TRUE]

\* connection_status[line] = True; if connection_status[last_error]: ... = None
Recovered(status) == [connected |-> TRUE, last_error |-> None]

\* a faulty variant of CountRetry, for testing the properties: the count stays
CountRetryNever(retry_count) == retry_count

\* retry_count += 1
CountRetry(retry_count) == retry_count + 1

\* read_plc calls read_plc_1a at the top of an iteration and read_plc_1b when
\* read_plc_1a has returned
CallStart(l) ==
    /\ IF l = "1a" THEN call.phase = "idle" /\ begun < MaxCalls
       ELSE call.line = "1a" /\ call.phase = "returned"
    /\ call' = NewCall(l)
    /\ begun' = IF l = "1a" THEN begun + 1 ELSE begun
    /\ UNCHANGED << app_status, appRest, restVars >>
    /\ UNCHANGED << poolVars, otherVars, serviceVars >>

\* plc.connect succeeds
ConnectOk ==
    /\ call.phase = "connect"
    /\ app_status' = [app_status EXCEPT ![call.line] = Recovered(@)]
    /\ call' = [call EXCEPT !.phase = "read",
                            !.attempts = Tally(@),
                            !.recovery_logs = IF app_status[call.line].last_error # None
                                              THEN @ + 1 ELSE @]
    /\ UNCHANGED << begun, appRest, restVars >>
    /\ UNCHANGED << poolVars, otherVars, serviceVars >>

\* plc.connect raises: the error is stored, and the call waits or returns False
ConnectRaise ==
    /\ call.phase = "connect"
    /\ app_status' = Failed(call.line)
    /\ LET retry_count == CountRetry(call.retry_count)
       IN  call' = IF RetriesLeft(retry_count)
                   THEN [call EXCEPT !.phase = "sleep", !.attempts = Tally(@),
                                     !.retry_count = retry_count]
                   ELSE [call EXCEPT !.phase = "returned", !.attempts = Tally(@),
                                     !.retry_count = retry_count, !.result = "False"]
    /\ UNCHANGED << begun, appRest, restVars >>
    /\ UNCHANGED << poolVars, otherVars, serviceVars >>

\* eventlet.sleep(RETRY_INTERVAL) ends and the while test lets the next attempt in
RetryWait ==
    /\ call.phase = "sleep"
    /\ call' = [call EXCEPT !.phase = IF RetriesLeft(call.retry_count) THEN "connect" ELSE "read",
                            !.waits = Tally(@),
                            !.waited = Tally(call.waits) * RETRY_INTERVAL]
    /\ UNCHANGED << begun, app_status, appRest, restVars >>
    /\ UNCHANGED << poolVars, otherVars, serviceVars >>

\* the body after the connect loop: not connected returns False; otherwise the
\* registers are read and the call returns True, or a read raises and it returns False
ReadRegisters ==
    /\ call.phase = "read"
    /\ IF ~app_status[call.line].connected
       THEN /\ call' = [call EXCEPT !.phase = "returned", !.result = "False"]
            /\ UNCHANGED app_status
       ELSE \E ok \in BOOLEAN :
            /\ call' = [call EXCEPT !.phase = "returned", !.registers_read = TRUE,
                                    !.result = IF ok THEN "True" ELSE "False"]
            /\ app_status' = IF ok THEN app_status ELSE Failed(call.line)
    /\ UNCHANGED << begun, appRest, restVars >>
    /\ UNCHANGED << poolVars, otherVars, serviceVars >>

\* after read_plc_1b: process_hourly_data when the hour changed (db_ok: whether sqlite
\* accepts its writes), socketio.emit, and the idle wait eventlet.sleep(5)
IdleWait ==
    /\ call.line = "1b" /\ call.phase = "returned"
    /\ \E db_ok \in BOOLEAN : call' = [call EXCEPT !.phase = "idle"]
    /\ UNCHANGED << begun, app_status, appRest, restVars >>
    /\ UNCHANGED << poolVars, otherVars, serviceVars >>

(***************************************************************************)
(* Closing a session: plc.close() inside try / except: pass, in            *)
(* connect_plc, in stop() and in the finally of read_plc_1a / read_plc_1b. *)
(* Each action is one whole call; close_raises says whether plc.close()    *)
(* raised (the session was closed already, or the peer is gone).           *)
(***************************************************************************)
\* a faulty variant of close_error_reaches_caller, for testing the properties: no
\* handler around plc.close()
close_error_propagates(close_raises) == close_raises

\* try: plc.close() / except: pass -- what plc.close() raises ends in the handler
close_error_reaches_caller(close_raises) == FALSE

\* the enabled devices
Enabled == { p \in PLCS : plc_configs[p].enabled }

OrderIndex(p) == CHOOSE i \in 1..Len(Order) : Order[i] = p

\* connect_plc(p): a stored session is closed first, then plc.connect; an exception
\* leaving the inner try would end in the outer handler, which returns False
connect_plc(p) ==
    \E close_raises \in BOOLEAN, connect_ok \in BOOLEAN :
        LET had == p \in plc_connections
            escaped == had /\ close_error_reaches_caller(close_raises)
            ok == ~escaped /\ connect_ok
        IN  /\ plc_connections' = IF ok THEN plc_connections \cup {p} ELSE plc_connections
            /\ connection_status' = [connection_status EXCEPT ![p] = IF ok THEN "True" ELSE "False"]
            /\ closed' = IF ok THEN closed \ {p} ELSE closed
            /\ lastStep' = [kind |-> "connect_plc", plc |-> p, had_session |-> had,
                            close_raised |-> had /\ close_raises,
                            connect_attempted |-> ~escaped, connect_ok |-> connect_ok,
                            returned |-> ok]
            /\ UNCHANGED << current_data, retry_counts, cursor >>
            /\ UNCHANGED << running, threads, poll_time, data_lock, reader >>
            /\ UNCHANGED << appVars, otherVars, sideVars >>

\* stop(): the sessions are closed in the order of the dict, those in raising raise
\* on close; then the threads are joined.  An exception leaving the try would end
\* the for loop and stop() itself
stop_closing ==
    /\ running
    /\ running' = FALSE
    /\ \E raising \in SUBSET plc_connections :
        LET escapes == { p \in raising : close_error_reaches_caller(TRUE) }
            called == { p \in plc_connections :
                          \A q \in escapes : OrderIndex(p) <= OrderIndex(q) }
        IN  /\ closed' = closed \cup called
            /\ reader' = [kind |-> "stop", sessions |-> plc_connections, raised |-> raising,
                           close_called |-> called, joined |-> escapes = {}]
    /\ UNCHANGED << threads, poll_time, data_lock >>
    /\ UNCHANGED << poolVars, appVars, otherVars, sideVars >>

\* the end of a read_plc_1a / read_plc_1b call: return True or return False, then the
\* finally with plc.close(); an exception leaving the finally would replace the return
read_plc_close(l) ==
    \E body_result \in {"True", "False"}, close_raises \in BOOLEAN :
        /\ call' = [line |-> l, phase |-> "closed", body_result |-> body_result,
                    close_raised |-> close_raises,
                    result |-> IF close_error_reaches_caller(close_raises) THEN "raised"
                               ELSE body_result]
        /\ UNCHANGED << config_file, loaded_configs, startup, response, requests, begun >>
        /\ UNCHANGED << poolVars, appVars, otherVars, serviceVars >>

(***************************************************************************)
(* A stored session that has become unusable: the peer reset it, or stop() *)
(* closed it and start() was called again.  closed holds the devices whose  *)
(* stored session is in that state; every read on such a session raises,    *)
(* while plc.connect to the device would succeed.                           *)
(***************************************************************************)
\* the stored session of a connected device becomes unusable
SessionDies ==
    /\ \E p \in plc_connections \ closed :
          /\ connection_status[p] = "True"
          /\ closed' = closed \cup {p}
    /\ UNCHANGED << running, threads, poll_time, data_lock, reader >>
    /\ UNCHANGED << poolVars, appVars, otherVars, sideVars >>

\* a step of data_collection_loop: a read on an unusable stored session fails in
\* every range; any other read draws from LoopResults
LoopWithDeadSessions ==
    /\ PoolNext
    /\ lastStep'.kind \in {"read_ok", "read_none"} =>
           lastStep'.results \in (IF lastStep'.plc \in closed /\ ~lastStep'.connected
                                  THEN ClosedResults(lastStep'.plc)
                                  ELSE LoopResults[lastStep'.plc])

vars == << poolVars, appVars, otherVars, serviceVars, sideVars >>

\* save_to_database runs on the empty table; everything else keeps its initial value
InitSave == PoolInit /\ AppStart(0) /\ OtherInit /\ ServiceInit /\ SideInit
NextSave == SaveCall

SpecSave == InitSave /\ [][NextSave]_vars

\* process_hourly_data fills the tables and the report queries read them
InitReport == PoolInit /\ AppStart(0) /\ OtherInit /\ ServiceInit /\ SideInit
NextReport == HourlySave \/ QueryHistory \/ QueryHourly

SpecReport == InitReport /\ [][NextReport]_vars

\* snapshots are saved to the history tables, time passes, cleanup_old_data runs
InitClean == PoolInit /\ AppStart(0) /\ OtherInit /\ ServiceInit /\ SideInit
NextClean == ClockAdvance \/ SaveSnapshot \/ Cleanup

SpecClean == InitClean /\ [][NextClean]_vars

\* the master runs; the variables of app.py keep the value they have at its start
Init == PoolInit /\ AppStart(0) /\ OtherInit /\ ServiceInit /\ SideInit
Next == PoolNext

\* app.py runs; the variables of the master keep their initial value
InitApp == AppInit /\ PoolInit /\ OtherInit /\ ServiceInit /\ SideInit
NextApp == AppNext


\* the service: start, stop, the collection threads and the readers
InitService == PoolInit /\ AppStart(0) /\ OtherInit /\ ServiceInit /\ SideInit
NextService ==
    \/ start \/ stop \/ LoopStep
    \/ health_check_get \/ health_check_last_update \/ health_check_register_count
    \/ locked_get \/ get_current_data_timestamp \/ get_current_data_registers \/ get_register_data

\* the two programs side by side: a behaviour is a run of the master loop or a run of
\* the loop of app.py
InitEither == AppInit /\ PoolInit /\ OtherInit /\ ServiceInit /\ SideInit
MasterRuns == AppStart(0) /\ PoolNext
AppRuns == lastStep.kind = "start" /\ AppNext
NextEither == MasterRuns \/ AppRuns

\* construction of the pool from a configuration file
InitConfig == PoolInit /\ AppStart(0) /\ OtherInit /\ ServiceInit /\ ConfigInit
NextConfig == load_config

\* requests to the registers endpoint on a cache left by the polls
InitApi == CacheInit /\ AppStart(0) /\ OtherInit /\ ServiceInit /\ ApiInit
NextApi == get_plc_registers

\* the calls of read_plc_1a and read_plc_1b step by step
InitConnect == PoolInit /\ AppStart(0) /\ OtherInit /\ ServiceInit /\ SideInit
NextConnect ==
    \/ \E l \in Lines : CallStart(l)
    \/ ConnectOk \/ ConnectRaise \/ RetryWait \/ ReadRegisters \/ IdleWait

\* both poll loops, each step of the loop that runs eventually taken: every external
\* call returns or raises
InitLoops == PoolInit /\ AppStart(0) /\ OtherInit /\ ServiceInit /\ SideInit
MasterLoops ==
    /\ call = NoCallYet /\ begun = 0
    /\ PoolNext
    /\ lastStep'.kind \in {"read_ok", "read_none"} => lastStep'.results \in LoopResults[lastStep'.plc]
AppLoops == lastStep.kind = "start" /\ NextConnect
NextLoops == MasterLoops \/ AppLoops

\* save_daily_summary runs on the empty table; everything else keeps its initial value
InitSummary == PoolInit /\ AppStart(0) /\ OtherInit /\ ServiceInit /\ SideInit
NextSummary == SummaryCall

SpecSummary == InitSummary /\ [][NextSummary]_vars

\* app.py runs on from the state an earlier iteration of read_plc left
InitAppCached ==
    /\ \E h \in Hours, blk \in DevBlocks : AppCached(h, blk)
    /\ PoolInit /\ OtherInit /\ ServiceInit /\ SideInit
NextAppCached == AppNext

SpecAppCached == InitAppCached /\ [][NextAppCached]_vars

\* the calls that close a session, in any order
InitClose == PoolInit /\ AppStart(0) /\ OtherInit /\ ServiceInit /\ SideInit
NextClose ==
    \/ start
    \/ \E p \in Enabled : connect_plc(p)
    \/ stop_closing
    \/ \E l \in Lines : read_plc_close(l)

SpecClose == InitClose /\ [][NextClose]_vars

\* the master loop with sessions that die, every step of the loop eventually taken
InitReconnect == PoolInit /\ AppStart(0) /\ OtherInit /\ ServiceInit /\ SideInit
NextReconnect == SessionDies \/ LoopWithDeadSessions

SpecReconnectFair ==
    InitReconnect /\ [][NextReconnect]_vars /\ WF_vars(LoopWithDeadSessions)

Spec == Init /\ [][Next]_vars

SpecApp == InitApp /\ [][NextApp]_vars

SpecService == InitService /\ [][NextService]_vars

SpecEither == InitEither /\ [][NextEither]_vars

SpecConfig == InitConfig /\ [][NextConfig]_vars

SpecApi == InitApi /\ [][NextApi]_vars

SpecConnect == InitConnect /\ [][NextConnect]_vars

SpecLoopsFair == InitLoops /\ [][NextLoops]_vars /\ WF_vars(NextLoops)

(***************************************************************************)
(* Properties of the master collection loop (Spec).                        *)
(***************************************************************************)
\* the step just taken called read_plc_data
WasRead == lastStep.kind \in {"read_ok", "read_none"}

\* the addresses of range i of device p, and the ranges of the last read that succeeded
Addresses(p, i) ==
    LET rc == plc_configs[p].register_ranges[i]
    IN  { rc.start_register + o : o \in 0..(rc.count - 1) }
Succeeded == { i \in DOMAIN lastStep.results : lastStep.results[i].ok }

\* C1: in read_plc_data every configured range is read whichever ranges fail; when at
\* least one range succeeds the snapshot returned has connection_status true and its
\* register map holds exactly the addresses start + offset of the successful ranges,
\* each with the word read by the last successful range that covers it, and the loop
\* stores that snapshot as the device's current data.
C1_PartialFailureIsolation ==
    WasRead =>
        LET p == lastStep.plc
            rs == plc_configs[p].register_ranges
            d == lastStep.data
        IN  /\ lastStep.attempted = 1..Len(rs)
            /\ Succeeded # {} =>
                /\ d # NoData
                /\ d.connection_status
                /\ DOMAIN d.registers = UNION { Addresses(p, i) : i \in Succeeded }
                /\ \A a \in DOMAIN d.registers :
                      LET covering == { i \in Succeeded : a \in Addresses(p, i) }
                          last == CHOOSE i \in covering : \A j \in covering : j <= i
                      IN  d.registers[a] = lastStep.results[last].values[a - rs[last].start_register + 1]
                /\ current_data[p] = d
                /\ connection_status[p] = "True"

\* C1 witness: of the three ranges of 1A the second fails and the other two are merged
C1_Witness ==
    /\ lastStep.kind = "read_ok"
    /\ lastStep.plc = "1A"
    /\ Succeeded = {1, 3}
    /\ DOMAIN lastStep.data.registers = {800, 801, 5000}
    /\ lastStep.data.connection_status

\* C2 as claimed: after a poll of an open session in which every range read failed,
\* connection_status of the device is false, so that the next cycle reconnects.
C2_TotalFailureDisconnects ==
    (lastStep.kind = "read_none" /\ ~lastStep.connected) =>
        connection_status[lastStep.plc] = "False"

\* C3 as claimed: a device is never left out of a later cycle for having used up
\* max_retries.  retry_counts reaches max_retries only in a visit that did attempt a
\* connection, and a device is visited once per cycle, so every visit that takes the
\* "Max retries reached" branch belongs to a later cycle.
C3_RetriedNextCycle == lastStep.kind # "skip"

(***************************************************************************)
(* Properties of the poller of app.py (SpecApp).                           *)
(***************************************************************************)
\* C4: after a successful read_plc_1a at hour h, current_date holds D700/D710 as the
\* day shift date, and as the night shift date D700/D710 when h >= 19 or h < 7 and
\* D701/D711 when 7 <= h < 19.
C4_ShiftDates ==
    (lastRead.line = "1a" /\ lastRead.ok) =>
        LET h == lastRead.hour
            d == lastRead.dates
        IN  /\ current_date.day_month = d.day_month
            /\ current_date.day_date = d.day_date
            /\ (h >= 19 \/ h < 7) =>
                  /\ current_date.night_month = d.day_month
                  /\ current_date.night_date = d.day_date
            /\ (7 <= h /\ h < 19) =>
                  /\ current_date.night_month = d.yesterday_month
                  /\ current_date.night_date = d.yesterday_date

\* C4 witness: a read at 14:00 of a device holding 03-10 and 03-09
C4_Witness ==
    /\ lastRead.line = "1a"
    /\ lastRead.ok
    /\ lastRead.hour = 14
    /\ lastRead.dates.day_date = 10
    /\ current_date.night_date = 9

\* the current-day registers D800+i requested for the hours hs
CurrentDayRequested(hs) == { r.reg : r \in { q \in lastRead.requests : q.reg \in { 800 + i : i \in hs } } }

C6_ShiftMatchesHour ==
    \A r \in production_data :
        /\ r.hour \in 0..23
        /\ r.shift \in {"Day", "Night"}
        /\ r.shift = "Day" <=> r.hour \in 7..18
        /\ r.shift = "Night" <=> r.hour \in (19..23) \cup (0..6)

\* C6 witness: process_hourly_data has written rows of both shifts for both lines
C6_Witness ==
    /\ lastProcess.rows # {}
    /\ \A l \in {"1A", "1B"} :
          /\ \E r \in production_data : r.line_id = l /\ r.shift = "Day" /\ r.hour = 18
          /\ \E r \in production_data : r.line_id = l /\ r.shift = "Night" /\ r.hour = 19
          /\ \E r \in production_data : r.line_id = l /\ r.shift = "Night" /\ r.hour = 0

RECURSIVE SumDowntime(_)
SumDowntime(rows) ==
    IF rows = {} THEN 0
    ELSE LET r == CHOOSE x \in rows : TRUE
         IN  r.downtime + SumDowntime(rows \ {r})

\* C11 as claimed: total_downtime of every daily_summary row is the sum of the downtime
\* of the production_data rows of the same date, line and shift.
C11_SummaryDowntimeIsRowSum ==
    \A s \in daily_summary :
        s.total_downtime =
            SumDowntime({ r \in production_data :
                            r.date = s.date /\ r.line_id = s.line_id /\ r.shift = s.shift })

\* the hours of a shift that have elapsed when the summaries are saved at hour c
ElapsedHours(shift, c) ==
    IF shift = "Day"
    THEN (IF c \in 7..18 THEN 7..c ELSE 7..18)
    ELSE (IF c >= 19 THEN 19..c
          ELSE IF c < 7 THEN (19..23) \cup (0..c)
          ELSE (19..23) \cup (0..6))

\* the sum of the hourly values day_data holds for line l over the hours hs
ActualOver(l, hs) ==
    LET InHs(h) == h \in hs
        sel == SelectSeq(day_hours \o night_hours, InHs)
    IN  SumSeq([k \in 1..Len(sel) |-> day_data[l][sel[k]].value])

\* C12 as claimed: total_actual of every summary saved at hour c is the sum of the
\* hourly values over exactly the elapsed hours of its shift.
C12_ActualOverElapsedHours ==
    \A s \in lastProcess.summaries :
        s.total_actual = ActualOver(IF s.line_id = "1A" THEN "1a" ELSE "1b",
                                    ElapsedHours(s.shift, lastProcess.hour))

(***************************************************************************)
(* Properties of save_to_database and calculate_downtime_minutes           *)
(* (SpecSave).  A row is saved for every unit count in 0..MaxSaveUnits.    *)
(***************************************************************************)
\* C7: the downtime of every unit count is at least 0 and that of 0 units is 60, so
\* every downtime stored in production_data is non-negative.
C7_DowntimeNonNegative ==
    \A r \in production_data :
        /\ r.downtime >= 0
        /\ r.actual = 0 => r.downtime = 60

\* C7 witness: a row of 0 units and a row of more units than fit in an hour
C7_Witness ==
    /\ \E r \in production_data : r.actual = 0 /\ r.downtime = 60
    /\ \E r \in production_data : r.actual * CYCLE_TIME > 3600 /\ r.downtime = 0

\* C8 as claimed: the downtime is the remaining seconds of the hour in minutes,
\* rounded to the nearest minute, and 0 when no seconds remain.
C8_RoundedToNearest ==
    \A r \in production_data :
        r.downtime = Max(0, RoundHalfEven(3600 - (r.actual * CYCLE_TIME), 60))

\* C8 amended: the downtime is the number of whole minutes in the remaining seconds
\* of the hour (the fraction of a minute is dropped), and 0 when no seconds remain.
C8_WholeMinutes ==
    \A r \in production_data :
        LET remaining == 3600 - (r.actual * CYCLE_TIME)
        IN  IF remaining >= 0
            THEN 60 * r.downtime <= remaining /\ remaining < 60 * (r.downtime + 1)
            ELSE r.downtime = 0

\* C8 witness: 1 unit leaves 3450 seconds, stored as 57 minutes
C8_Witness == \E r \in production_data : r.actual = 1 /\ r.downtime = 57

\* C9: production_data holds at most one row per (date, line_id, shift, hour), and
\* for every key saved so far exactly one row, with the target, actual and downtime of
\* the latest committed call for that key.
C9_UpsertLatest ==
    /\ \A r1, r2 \in production_data :
          (r1.date = r2.date /\ r1.line_id = r2.line_id /\ r1.shift = r2.shift
              /\ r1.hour = r2.hour) => r1 = r2
    /\ \A k \in SaveKeys :
          LET rows == { r \in production_data :
                          r.date = k.date /\ r.hour = k.hour /\ r.line_id = k.line_id }
          IN  IF last_saved[k].calls = 0
              THEN rows = {}
              ELSE /\ Cardinality(rows) = 1
                   /\ \A r \in rows :
                         /\ r.shift = ShiftOf(k.hour)
                         /\ r.target = last_saved[k].target
                         /\ r.actual = last_saved[k].actual
                         /\ 60 * r.downtime <= Max(0, 3600 - (r.actual * CYCLE_TIME))
                         /\ Max(0, 3600 - (r.actual * CYCLE_TIME)) < 60 * (r.downtime + 1)

\* C9 witness: a key saved twice with different unit counts has one row, the latest
C9_Witness ==
    \E k \in SaveKeys :
        /\ last_saved[k].calls = 2
        /\ last_saved[k].overwrote
        /\ Cardinality(production_data) = 2
        /\ \E r \in production_data : r.hour = k.hour /\ r.actual = last_saved[k].actual

(***************************************************************************)
(* Properties of the report queries (SpecReport).                          *)
(***************************************************************************)
\* C13 as claimed: the shift total target is TARGET_VALUE * 12 in every daily_summary
\* row and in every entry get_production_history returns, however many hourly rows of
\* the shift are persisted.
C13_TotalTargetFullShift ==
    /\ \A r \in daily_summary : r.total_target = TARGET_VALUE * 12
    /\ report.kind = "history" => \A e \in report.rows : e.total_target = TARGET_VALUE * 12

\* C14: every entry of get_production_history and get_hourly_production reports the
\* tenth of a percent nearest to actual / target * 100, and 0 for target 0; with the 12
\* Day rows of a date and line persisted at actual 5 and target 20 the Day entry of
\* get_production_history reports 25.0.
C14_AchievementRate ==
    /\ \A e \in report.rows :
          LET actual == IF report.kind = "history" THEN e.total_actual ELSE e.actual
              target == IF report.kind = "history" THEN e.total_target ELSE e.target
              diff == (e.achievement_rate * target) - (actual * 1000)
          IN  IF target > 0
              THEN 2 * diff <= target /\ 2 * (-diff) <= target
              ELSE e.achievement_rate = 0
    /\ \A actual \in ReportUnits : AchievementRate(actual, 0) = 0
    /\ report.kind = "history" =>
          \A e \in report.rows :
              LET rows == { r \in production_data :
                              r.date = e.date /\ r.line_id = e.line_id /\ r.shift = "Day" }
              IN  (/\ e.shift = "Day"
                   /\ { r.hour : r \in rows } = 7..18
                   /\ \A r \in rows : r.actual = 5 /\ r.target = 20)
                  => e.achievement_rate = 250

\* C14 witness: the history of a date whose 12 Day rows of line 1A hold 5 of 20 units
\* reports 60 of 240 and 25.0, and a rate that needed rounding is reported too
C14_Witness ==
    /\ report.kind = "history"
    /\ \E e \in report.rows :
          /\ e.line_id = "1A" /\ e.shift = "Day"
          /\ e.total_actual = 60 /\ e.total_target = 240 /\ e.achievement_rate = 250
          /\ Cardinality({ r \in production_data :
                             r.date = e.date /\ r.line_id = "1A" /\ r.shift = "Day"
                                 /\ r.actual = 5 /\ r.target = 20 }) = 12
    /\ \E e \in report.rows : (e.total_actual * 1000) % e.total_target # 0

(***************************************************************************)
(* Properties of cleanup_old_data (SpecClean).                             *)
(***************************************************************************)
\* the datetime a stored timestamp string was formatted from
FromIso(str) == [day |-> str[1], hour |-> str[2], micro |-> IF Len(str) = 3 THEN str[3] ELSE 0]

\* C15: a cleanup_old_data call that commits removes from plc_history and from
\* connection_status exactly the rows whose timestamp is earlier than now minus
\* history_retention_hours; rows at or after that cutoff stay.
C15_CleanupExact ==
    (lastCleanup.ran /\ lastCleanup.ok) =>
        LET cutoff == lastCleanup.cutoff
        IN  /\ (cutoff.day * 24) + cutoff.hour + history_retention_hours
                   = (wall_clock.day * 24) + wall_clock.hour
            /\ cutoff.micro = wall_clock.micro
            /\ plc_history =
                   { r \in lastCleanup.history : ~Earlier(FromIso(r.timestamp), cutoff) }
            /\ connection_log =
                   { r \in lastCleanup.status : ~Earlier(FromIso(r.timestamp), cutoff) }

\* C15 witness: one call removes a row older than the cutoff, one older only by the
\* fraction of the hour, and keeps a row stamped exactly at the cutoff
C15_Witness ==
    /\ lastCleanup.ran /\ lastCleanup.ok
    /\ \E r \in lastCleanup.history \ plc_history :
          FromIso(r.timestamp).hour < lastCleanup.cutoff.hour
    /\ \E r \in lastCleanup.history \ plc_history :
          /\ FromIso(r.timestamp).hour = lastCleanup.cutoff.hour
          /\ FromIso(r.timestamp).micro < lastCleanup.cutoff.micro
    /\ \E r \in plc_history : FromIso(r.timestamp) = lastCleanup.cutoff
    /\ \E r \in connection_log : FromIso(r.timestamp) = lastCleanup.cutoff

(***************************************************************************)
(* Properties of the service: the cache and its readers (SpecService).     *)
(***************************************************************************)
\* what a finished call returned is what snapshot s holds
Returned(s) ==
    CASE reader.kind = "health" ->
             /\ reader.last_update = (IF s # NoData THEN s.timestamp ELSE NoTime)
             /\ reader.register_count = (IF s # NoData THEN Cardinality(DOMAIN s.registers) ELSE 0)
      [] reader.kind = "current" ->
             /\ reader.last_update = (IF s # NoData THEN s.timestamp ELSE NoTime)
             /\ reader.registers = (IF s # NoData THEN s.registers ELSE EmptyMap)
      [] reader.kind = "register" ->
             reader.registers = (IF s # NoData
                                 THEN [a \in register_names \cap DOMAIN s.registers |-> s.registers[a]]
                                 ELSE EmptyMap)
      [] OTHER -> FALSE

\* C16: what get_current_data, get_register_data and health_check return for a
\* device is, in every field, one snapshot that the cache held for that device
\* during the call: the one cached when the call began or one stored meanwhile,
\* never fields of two snapshots and never part of a register map.
C16_WholeSnapshot ==
    reader.pc = "done" => \E s \in reader.during : Returned(s)

\* C16 witness: a health_check call returns a whole snapshot although a collection
\* thread replaced the cached snapshot of the device, with a register map of another
\* size, while the call ran
C16_Witness ==
    /\ reader.pc = "done" /\ reader.kind = "health"
    /\ reader.ref # NoData
    /\ \E s \in reader.during :
          /\ s # NoData
          /\ s.timestamp # reader.ref.timestamp
          /\ Cardinality(DOMAIN s.registers) # Cardinality(DOMAIN reader.ref.registers)
    /\ Returned(reader.ref)

\* C17: the snapshot cached for a device is never replaced by one with an older
\* poll timestamp.
C17_NeverOlder ==
    [][\A p \in PLCS :
          (current_data[p] # NoData /\ current_data'[p] # current_data[p])
              => current_data'[p].timestamp >= current_data[p].timestamp]_vars

\* the collection threads with a read_plc_data call for p in flight
InFlight(p) == { t \in LoopIds : threads[t].pc = "reading" /\ LoopAt(t) = p }

\* C18: at most one read_plc_data call is in flight for a device at any time.
C18_OneInFlight == \A p \in PLCS : Cardinality(InFlight(p)) <= 1

(***************************************************************************)
(* Properties of both loops (SpecEither).                                  *)
(***************************************************************************)
\* the device at the cursor is enabled and is connected or has retries left
Due(p) == plc_configs[p].enabled /\ (~NeedsConnect(p) \/ retry_counts[p] < max_retries)

\* C19: whatever happened to the devices before it in the tick, the master loop goes
\* on to the next device of plc_configs after each device, and a device that is due
\* is attempted (connect, then read); read_plc of app.py calls read_plc_1b after
\* read_plc_1a whatever read_plc_1a returned.
C19_FailureIsolated ==
    [][/\ (AtDevice /\ cursor' # cursor) =>
              /\ cursor' = cursor + 1
              /\ lastStep'.plc = Cur
              /\ Due(Cur) => lastStep'.kind \in {"connect_fail", "read_ok", "read_none"}
       /\ (pc = "1a" /\ pc' # pc) => pc' = "1b"
       /\ (pc = "1b" /\ pc' # pc) => lastRead'.line = "1b"]_vars

\* C19 witness: 1B is read in the cycle in which the connect of 1A failed for the
\* first time (master loop), or read_plc_1b reads in the iteration in which
\* read_plc_1a failed (app.py)
C19_Witness ==
    \/ /\ cursor = 3
       /\ lastStep.kind = "read_ok" /\ lastStep.plc = "1B"
       /\ connection_status["1A"] = "False" /\ retry_counts["1A"] = 1
    \/ /\ pc = "process"
       /\ lastRead.line = "1b" /\ lastRead.ok
       /\ ~app_status["1a"].connected /\ app_status["1b"].connected

(***************************************************************************)
(* Properties of the master loop when the history database fails (Spec).   *)
(***************************************************************************)
\* the place of p in the iteration order of plc_configs
Position(p) == CHOOSE i \in 1..Len(Order) : Order[i] = p

\* C20: after a poll whose save_to_database failed, the snapshot is in current_data,
\* the retry count of the device is reset, and the loop stands at the next device of
\* the cycle; the loop never stops in the cycle (every position of the for loop has
\* a next step and the cycle ends in the next one).
C20_SaveFailureContained ==
    /\ (lastStep.kind = "read_ok" /\ ~lastStep.saved) =>
           /\ current_data[lastStep.plc] = lastStep.data
           /\ retry_counts[lastStep.plc] = 0
           /\ cursor = Position(lastStep.plc) + 1
    /\ cursor \in 1..(Len(Order) + 1)
    /\ cursor = Len(Order) + 1 => ENABLED EndCycle

\* C20 witness: the save of a snapshot of 1A failed, the snapshot is cached, and the
\* loop stands at 1B
C20_Witness ==
    /\ lastStep.kind = "read_ok" /\ ~lastStep.saved /\ lastStep.plc = "1A"
    /\ current_data["1A"] = lastStep.data
    /\ cursor = 2

(***************************************************************************)
(* Properties of load_config (SpecConfig).                                 *)
(***************************************************************************)
\* the devices of the file whose definition is well formed
WellFormed == { DeviceId(i) : i \in { j \in DOMAIN config_file : ~DeviceRaises(config_file[j]) } }

\* C21: a malformed device definition excludes only that device: after load_config
\* every well-formed device of the file is in plc_configs and startup went on.
C21_OnlyMalformedExcluded ==
    startup # "new" => (startup = "started" /\ loaded_configs = WellFormed)

(***************************************************************************)
(* Properties of the registers endpoint (SpecApi).                         *)
(***************************************************************************)
\* the register map cached for the device of the last request
CachedRegisters ==
    IF current_data[response.plc_id] = NoData THEN EmptyMap
    ELSE current_data[response.plc_id].registers

\* C22: with a cached snapshot and names requested, the endpoint (get_register_data)
\* returns exactly the requested names the cached map has, each with its cached
\* value; with no name requested it returns the whole cached map; no request
\* changes the cache.
C22_RequestedRegisters ==
    /\ [][current_data' = current_data]_vars
    /\ []((response.route = "registers" /\ current_data[response.plc_id] # NoData) =>
             LET names == RequestedNames(response.args)
                 asked == { names[i] : i \in DOMAIN names }
                 body == response.body
             IN  IF asked # {}
                 THEN /\ DOMAIN body =
                             { << a >> : a \in { b \in DOMAIN CachedRegisters : << b >> \in asked } }
                      /\ \A n \in DOMAIN body : body[n] = CachedRegisters[n[1]]
                 ELSE /\ DOMAIN body = { << a >> : a \in DOMAIN CachedRegisters }
                      /\ \A n \in DOMAIN body : body[n] = CachedRegisters[n[1]])

\* C22 witness: a request names a register the snapshot has and one it lacks, and
\* gets the first only
C22_Witness ==
    /\ response.route = "registers" /\ response.plc_id = "1A"
    /\ response.args = << << 800, 52 >> >>
    /\ current_data["1A"] # NoData
    /\ 800 \in DOMAIN current_data["1A"].registers
    /\ DOMAIN response.body = { << 800 >> }
    /\ response.body[<< 800 >>] = 1

(***************************************************************************)
(* Properties of what get_current_data exposes after a poll (Spec).        *)
(***************************************************************************)
\* get_current_data(plc_id): the fields of the cached snapshot, or {} (NoData)
Exposed(p) == current_data[p]

\* C23: after a poll of a device in which every range read failed, the snapshot
\* get_current_data exposes for the device has connection_status false and carries
\* the error message.
C23_TotalFailureExposed ==
    lastStep.kind = "read_none" =>
        /\ Exposed(lastStep.plc) # NoData
        /\ ~Exposed(lastStep.plc).connection_status
        /\ Exposed(lastStep.plc).error_message # None

\* get_current_data(): the keys of the response, one per item of current_data
ExposedDevices == { p \in PLCS : current_data[p] # NoData }

\* C24: every enabled device the loop has visited is in the get_current_data()
\* response, whatever the outcome of the visit; and a cached snapshot with registers
\* is never replaced by one without registers nor removed.
C24_AlwaysPresent ==
    /\ [](\A p \in PLCS :
             (plc_configs[p].enabled /\ lastStep.plc = p) => p \in ExposedDevices)
    /\ [][\A p \in ExposedDevices :
             /\ p \in ExposedDevices'
             /\ current_data'[p].registers # EmptyMap]_vars

\* the part of C24 that holds: a cached snapshot is never emptied nor removed
C24_NeverEmptied ==
    [][\A p \in ExposedDevices :
          /\ p \in ExposedDevices'
          /\ current_data'[p].registers # EmptyMap]_vars

(***************************************************************************)
(* Properties of process_hourly_data without device dates (SpecApp).       *)
(***************************************************************************)
\* C25: at an hour change with the device dates unavailable (never read, or not a
\* date), process_hourly_data persists the hourly rows under the poller's local
\* calendar date.
C25_LocalDateFallback ==
    (lastProcess.changed /\ ~lastProcess.dates_ok /\ lastProcess.db_ok) =>
        /\ lastProcess.rows # {}
        /\ \A r \in lastProcess.rows :
              /\ r.date # NoDate
              /\ r.date[1] = LocalNow.year
              /\ r.date[2] = LocalNow.month

(***************************************************************************)
(* Properties of the connect attempts of read_plc_1a / read_plc_1b         *)
(* (SpecConnect).                                                          *)
(***************************************************************************)
\* the call gave up: every attempt it was allowed failed
GaveUp == call.retry_count = MAX_CONNECTION_RETRIES

\* C26: a call makes at most MAX_CONNECTION_RETRIES connect attempts, waits
\* RETRY_INTERVAL after every failed attempt but the last, returns False without
\* reading a register when all attempts failed, and a new call starts at retry
\* count 0.
C26_BoundedAttempts ==
    /\ [](/\ call.attempts <= MAX_CONNECTION_RETRIES
          /\ call.retry_count <= call.attempts
          /\ call.waits = (IF call.phase = "sleep" \/ GaveUp
                           THEN call.retry_count - 1 ELSE call.retry_count)
          /\ call.waited = call.waits * RETRY_INTERVAL
          /\ GaveUp => /\ call.result = "False"
                       /\ ~call.registers_read
                       /\ call.attempts = MAX_CONNECTION_RETRIES)
    /\ [][call'.line # call.line => (call'.retry_count = 0 /\ call'.attempts = 0)]_vars

\* C26 witness: the second iteration's read_plc_1a gives up after
\* MAX_CONNECTION_RETRIES attempts and one wait fewer
C26_Witness ==
    /\ begun = 2 /\ call.line = "1a" /\ GaveUp
    /\ call.attempts = MAX_CONNECTION_RETRIES
    /\ call.waits = MAX_CONNECTION_RETRIES - 1
    /\ call.result = "False"

\* C27: a successful connect clears the stored error of the device, logging the
\* recovery once when there was an error and not otherwise; and when a call has
\* returned True the device is marked connected with no stored error.
C27_RecoveryClearsError ==
    /\ [](call.result = "True" =>
             /\ app_status[call.line].connected
             /\ app_status[call.line].last_error = None)
    /\ [][(call.phase = "connect" /\ call'.phase = "read") =>
             /\ app_status'[call.line] = [connected |-> TRUE, last_error |-> None]
             /\ call'.recovery_logs - call.recovery_logs =
                    (IF app_status[call.line].last_error # None THEN 1 ELSE 0)]_vars

\* C27 witness: a call returns True after failed attempts of its own, the recovery
\* logged once
C27_Witness ==
    /\ call.result = "True"
    /\ call.retry_count > 0
    /\ call.recovery_logs = 1
    /\ app_status[call.line] = [connected |-> TRUE, last_error |-> None]

\* the registers of line l are read in this step
ReadsOf(l) == call.line = l /\ ReadRegisters

\* C28: while read_plc_1a waits out its retry delay, the registers of 1b can be read.
C28_SiblingNotHeldUp ==
    (call.line = "1a" /\ call.phase = "sleep") => ENABLED ReadsOf("1b")

(***************************************************************************)
(* Termination of the iterations of both loops (SpecLoopsFair).            *)
(***************************************************************************)
\* C29: every iteration of data_collection_loop that has begun reaches the end of
\* its for loop, and every iteration of read_plc that has begun reaches its idle
\* wait, whatever connects, reads and database writes fail.
C29_IterationsEnd ==
    /\ (lastStep.kind # "start" /\ AtDevice) ~> (cursor = Len(Order) + 1)
    /\ (call.phase # "idle") ~> (call.phase = "idle")

\* C29 witness: an iteration in which a connect and a save failed has ended (master),
\* or an iteration in which both lines gave up has reached the idle wait (app.py)
C29_Witness ==
    \/ /\ cursor = Len(Order) + 1
       /\ connection_status["1A"] = "False"
       /\ current_data["1B"] # NoData
       /\ lastStep.kind = "disabled"
    \/ /\ call.phase = "idle" /\ begun = 1
       /\ call.retry_count = MAX_CONNECTION_RETRIES
       /\ ~app_status["1a"].connected /\ ~app_status["1b"].connected

(***************************************************************************)
(* Properties of the disabled devices (Spec).                              *)
(***************************************************************************)
\* C30: a device whose enabled flag is false is never connected to and never read
\* by the master loop, and never has an entry in plc_connections, connection_status
\* or current_data, whatever the number of cycles.
C30_DisabledUntouched ==
    \A p \in PLCS :
        ~plc_configs[p].enabled =>
            /\ p \notin plc_connections
            /\ connection_status[p] = "absent"
            /\ current_data[p] = NoData
            /\ retry_counts[p] = 0
            /\ lastStep.plc = p => /\ lastStep.kind = "disabled"
                                   /\ ~lastStep.connected
                                   /\ lastStep.attempted = {}

\* C30 witness: the loop has just passed the disabled device 1C in a cycle that is
\* at least the third (1B has failed to connect max_retries times) while 1A has
\* been connected and read
C30_Witness ==
    /\ lastStep.kind = "disabled" /\ lastStep.plc = "1C"
    /\ ~plc_configs["1C"].enabled
    /\ "1A" \in plc_connections /\ current_data["1A"] # NoData
    /\ connection_status["1B"] = "False" /\ retry_counts["1B"] = max_retries

(***************************************************************************)
(* Properties of retry_counts in data_collection_loop (Spec).              *)
(***************************************************************************)
\* C31: retry_counts[plc_id] is reset to 0 after every successful connect_plc and
\* after every poll that yields a snapshot: after a poll with a snapshot the count
\* is 0, and after a successful connect followed by a read without snapshot it is
\* 1 (reset, then counted once), whatever it was before.
C31_RetryReset ==
    /\ lastStep.kind = "read_ok" => retry_counts[lastStep.plc] = 0
    /\ (lastStep.kind = "read_none" /\ lastStep.connected) => retry_counts[lastStep.plc] = 1

\* C31 witness: connect_plc succeeds after two failed attempts and the read yields
\* a snapshot; the count that was 2 is 0
C31_Witness ==
    /\ lastStep.kind = "read_ok" /\ lastStep.connected
    /\ lastStep.retries_before = 2
    /\ retry_counts[lastStep.plc] = 0

(***************************************************************************)
(* Properties of save_daily_summary (SpecSummary).                         *)
(***************************************************************************)
SameSummaryKey(r, c) == r.date = c.date /\ r.line_id = c.line_id /\ r.shift = c.shift

\* C32: after any sequence of save_daily_summary calls daily_summary holds at most
\* one row per (date, line_id, shift); a committed call leaves the row of its key
\* with its totals and leaves the rows of the other keys as they were, and a failed
\* call changes nothing: so each row carries the totals of the most recent call.
C32_OneRowPerKey ==
    /\ [](\A r1, r2 \in daily_summary : SameSummaryKey(r1, r2) => r1 = r2)
    /\ [][\A c \in lastProcess'.summaries :
            IF lastProcess'.db_ok
            THEN /\ \E r \in daily_summary' :
                       /\ SameSummaryKey(r, c)
                       /\ r.total_target = c.total_target
                       /\ r.total_actual = c.total_actual
                 /\ { r \in daily_summary' : ~SameSummaryKey(r, c) }
                        = { r \in daily_summary : ~SameSummaryKey(r, c) }
            ELSE daily_summary' = daily_summary]_vars

\* C32 witness: all keys have a row, and the last call has replaced the totals
\* of a row that existed
C32_Witness ==
    /\ Cardinality(daily_summary) = Cardinality(SummaryKeys)
    /\ lastProcess.db_ok
    /\ \E c \in lastProcess.summaries, r \in daily_summary :
           /\ SameSummaryKey(r, c)
           /\ r.id < Cardinality(SummaryKeys)
           /\ r.total_actual = MaxSummaryUnits

(***************************************************************************)
(* Properties of the hourly reads of read_plc_1a / read_plc_1b             *)
(* (SpecAppCached).                                                        *)
(***************************************************************************)
\* C33: in a call of read_plc_1a / read_plc_1b, a failed read of one hourly register
\* leaves the cached entry of that hour unchanged, the remaining hours of the cycle
\* are still read and stored, and the device stays marked connected.
C33_FailedHourKept ==
    [][\A l \in Lines :
         (pc = l /\ lastRead'.line = l /\ lastRead'.ok) =>
             /\ \A r \in lastRead'.failed : day_data'[l][r.hour] = day_data[l][r.hour]
             /\ HourlyRequests(hour) \subseteq lastRead'.requests
             /\ \A r \in HourlyRequests(hour) \ lastRead'.failed :
                    /\ day_data'[l][r.hour].value \in Units
                    /\ day_data'[l][r.hour].downtime =
                           calculate_downtime_minutes(day_data'[l][r.hour].value)
                    /\ \A q \in HourlyRequests(hour) \ lastRead'.failed :
                           (q.reg >= 850) = (r.reg >= 850) =>
                               day_data'[l][q.hour] = day_data'[l][r.hour]
             /\ app_status'[l].connected
             /\ app_status'[l].last_error = None]_vars

\* C33 witness: the read of one hour has raised in a call that returned True; the
\* entry of that hour keeps the MaxUnits units cached by the earlier iteration while
\* another hour was read anew as 0
C33_Witness ==
    /\ lastRead.ok /\ lastRead.line \in Lines
    /\ app_status[lastRead.line].connected
    /\ \E r \in lastRead.failed :
           /\ day_data[lastRead.line][r.hour].value = MaxUnits
           /\ \E q \in lastRead.requests \ lastRead.failed :
                  /\ q.hour \in Hours
                  /\ day_data[lastRead.line][q.hour].value = 0

(***************************************************************************)
(* Properties of closing a session (SpecClose).                            *)
(***************************************************************************)
\* C34: an exception raised by plc.close() never propagates: connect_plc still makes
\* its connection attempt and returns what the attempt gave, stop() still closes
\* every stored session and joins the threads, and read_plc_1a / read_plc_1b return
\* what their body returned.
C34_CloseErrorsSwallowed ==
    /\ lastStep.kind = "connect_plc" =>
           /\ lastStep.connect_attempted
           /\ lastStep.returned = lastStep.connect_ok
           /\ lastStep.returned => (lastStep.plc \in plc_connections
                                     /\ connection_status[lastStep.plc] = "True")
    /\ reader.kind = "stop" =>
           /\ reader.close_called = reader.sessions
           /\ reader.sessions \subseteq closed \cup plc_connections
           /\ reader.joined
    /\ call.phase = "closed" => call.result = call.body_result

\* C34 witness: a connect_plc whose close of the stored session raised has connected
\* anew, a stop() has met two sessions of which the first raised on close, and a
\* read call whose close raised has returned True
C34_Witness ==
    /\ lastStep.kind = "connect_plc" /\ lastStep.close_raised /\ lastStep.returned
    /\ reader.kind = "stop" /\ reader.sessions = {"1A", "1B"} /\ "1A" \in reader.raised
    /\ call.phase = "closed" /\ call.close_raised /\ call.result = "True"

\* C35 as claimed: retry_counts[plc_id] stays within 0..max_retries for every device,
\* whatever the connect and read outcomes.
C35_RetryCountBounded ==
    \A p \in PLCS : retry_counts[p] \in 0..max_retries

(***************************************************************************)
(* Properties of the master loop with unusable sessions                    *)
(* (SpecReconnectFair).                                                    *)
(***************************************************************************)
\* C36 as claimed: when the stored session of a device has become unusable while the
\* device accepts new connections and the loop keeps running, the loop eventually
\* reconnects and caches a fresh snapshot of the device.
C36_EventuallyReconnects ==
    \A p \in Enabled :
        (p \in closed) ~> (lastStep.kind = "read_ok" /\ lastStep.plc = p /\ lastStep.connected)

(***************************************************************************)
(* Properties of the rows process_hourly_data writes (SpecApp,             *)
(* SpecAppCached).                                                         *)
(***************************************************************************)
\* C37 as claimed: process_hourly_data writes no production_data row for an hour of
\* the shift in progress that has not begun: at a current hour c in 19..23 no Night
\* row with hour > c or hour < 7, and at c in 7..18 no Day row with hour > c.
C37_NoRowForFutureHour ==
    \A r \in lastProcess.rows :
        LET c == lastProcess.hour
        IN  /\ (c \in 19..23 /\ r.shift = "Night") => ~(r.hour > c \/ r.hour < 7)
            /\ (c \in 7..18 /\ r.shift = "Day") => r.hour <= c

\* C38 as claimed: at an hour change process_hourly_data writes rows for a line only
\* when read_plc_1a / read_plc_1b read that line in the same iteration, and only
\* with dates read from 1A in that iteration: after a failed call no row of its
\* line is written, and after a failed read_plc_1a no row at all.
C38_OnlyFreshRows ==
    /\ lastProcess.rows # {} => app_status["1a"].connected
    /\ \A l \in Lines :
           (\E r \in lastProcess.rows : r.line_id = LineId(l)) => app_status[l].connected

(***************************************************************************)
(* Properties of the snapshots in current_data (Spec).                     *)
(***************************************************************************)
\* C39: every snapshot stored in current_data has either connection_status true, a
\* non-empty register map and no error message, or connection_status false, an
\* empty register map and an error message.
C39_SnapshotShapes ==
    \A p \in PLCS :
        current_data[p] # NoData =>
            \/ /\ current_data[p].connection_status
               /\ current_data[p].registers # EmptyMap
               /\ current_data[p].error_message = None
            \/ /\ ~current_data[p].connection_status
               /\ current_data[p].registers = EmptyMap
               /\ current_data[p].error_message # None

\* C39 witness: 1A holds a snapshot of a poll in which one range failed, 1B holds a
\* snapshot, and the last poll of 1B ended without one
C39_Witness ==
    /\ current_data["1A"] # NoData /\ DOMAIN current_data["1A"].registers = {5000}
    /\ current_data["1B"] # NoData
    /\ lastStep.kind = "read_none" /\ lastStep.plc = "1B"

====
